---- MODULE Spec2Model ----
(***************************************************************************)
(* VKinder: the conversation controller (bot.py), the candidate matcher    *)
(* (utils/matching.py) and the repository functions (database/crud.py).    *)
(*                                                                         *)
(* The persistent store is a plain row store: every table is a sequence of *)
(* rows in insertion order and a column holds whatever value the code      *)
(* writes to it.  A missing value (Python None) is the string "None" for   *)
(* text columns and 0 for the age column.                                  *)
(*                                                                         *)
(* Message texts are ASCII tokens standing for the texts of the program    *)
(* (TLA+ strings are ASCII); the table next to each token gives the text.  *)
(* Scores and weights are integers in hundredths (0.8 is 80).              *)
(* Time is in minutes.                                                     *)
(***************************************************************************)
EXTENDS Integers, Sequences, FiniteSets, TLC

VARIABLES
    users,          \* table users         (models.User)
    search_params,  \* table search_params (models.SearchParams)
    favorites,      \* table favorites     (models.Favorite)
    blacklist,      \* table blacklist     (models.Blacklist)
    matches,        \* table matches       (models.Match)
    photo_likes,    \* table photo_likes   (models.PhotoLike)
    auth_states,    \* table auth_states   (models.AuthState)
    user_cache,     \* VKBot.user_cache, the in-memory per-user UI state
    now,            \* wall clock, minutes
    issued,         \* the number of state tokens generate_state has returned
    loop,           \* the event loop of run(): "listening" or "stopped"
    gateway,        \* the clients of vkapi/methods.py and their clock
    shown,          \* observation: the candidate id last sent to each user by this process
    turn            \* record of the last handled message (observation only)

vars == <<users, search_params, favorites, blacklist, matches, photo_likes,
          auth_states, user_cache, now, issued, loop, gateway, shown, turn>>

(***************************************************************************)
(* Bounds of the model.                                                    *)
(***************************************************************************)
MaxPool == 2        \* longest list the upstream search returns
MaxTime == 10       \* the clock stops advancing here

UserIds == {1}
\* the profiles upstream: 1 is the bot user itself
CandIds == {1, 2, 3}

(***************************************************************************)
(* BotState (utils/states.py) and the literal written by create_user.      *)
(***************************************************************************)
MAIN_MENU         == "MAIN_MENU"
SEARCHING         == "SEARCHING"
VIEWING_CANDIDATE == "VIEWING_CANDIDATE"
FAVORITES         == "FAVORITES"
SEARCH_SETTINGS   == "SEARCH_SETTINGS"
PRIORITY_SETTINGS == "PRIORITY_SETTINGS"
AUTH_IN_PROGRESS  == "AUTH_IN_PROGRESS"
AWAITING_MIN_AGE  == "AWAITING_MIN_AGE"
AWAITING_MAX_AGE  == "AWAITING_MAX_AGE"
AWAITING_CITY     == "AWAITING_CITY"

BotState == {MAIN_MENU, SEARCHING, VIEWING_CANDIDATE, FAVORITES, SEARCH_SETTINGS,
             PRIORITY_SETTINGS, AUTH_IN_PROGRESS, AWAITING_MIN_AGE,
             AWAITING_MAX_AGE, AWAITING_CITY}

None == "None"

(***************************************************************************)
(* Message texts.                                                          *)
(*   "avtorizovatsya"  'авторизоваться'                                    *)
(*   "menu" "start"    'меню' 'старт'        "MENU"  'МЕНЮ'                *)
(*   "find_pair"       '🔍 Найти пару'       "favorites" '⭐ Избранное'     *)
(*   "settings"        '⚙️ Настройки'        "blacklist" '❌ Чёрный список' *)
(*   "help"            'ℹ️ Помощь'                                          *)
(*   "like"            '❤️ Лайк'             "unlike" '💔 Убрать лайк'      *)
(*   "to_favorites"    '⭐ В избранное'      "to_blacklist" '✖️ В чёрный список' *)
(*   "next"            '➡️ Следующий'        "to_menu" '🏠 В меню'          *)
(*   "view"            '👀 Посмотреть'       "delete" '🗑 Удалить'          *)
(*   "back"            '🔙 Назад'                                          *)
(*   "age_from"        '👶 Возраст от'       "age_to" '👴 Возраст до'       *)
(*   "city"            '🏙 Город'            "gender" '👫 Пол'              *)
(*   "priorities"      '📊 Приоритеты'       "done" '✅ Готово'             *)
(*   "age_first"       '🔢 Возраст важнее'   "music_first" '🎵 Музыка важнее' *)
(*   "books_first"     '📚 Книги важнее'     "friends_first" '👥 Друзья важнее' *)
(*   "url_st<k>"       a redirect URL  ...?code=c1&state=<k>&device_id=d1  *)
(*                     whose state is the k-th token generate_state made   *)
(*   "url_nostate"     a redirect URL  ...?code=c1&device_id=d1            *)
(*   "Kazan" "abc"     free text;  "0" "1" ... "150"  decimal numerals     *)
(***************************************************************************)
GlobalCommands == {"menu", "nachat", "start"}

\* str.lower() on the texts of the model
\* faulty variant of Lower: the comparison keeps the case
LowerKeepsCase(t) == t

Lower(t) == IF t = "MENU" THEN "menu" ELSE t

\* str.strip() on the texts of the model (no text of the model has outer blanks)
Strip(t) == t

\* "code=" in text
ContainsCode(t) == t \in {"url_st1", "url_st2", "url_st3", "url_nostate", "url_nocode"}

\* int(text): the numerals of the model and their values
IntTexts == {"0", "1", "2", "3", "17", "18", "25", "99", "150"}

IntOf(t) == CASE t = "0" -> 0 [] t = "1" -> 1 [] t = "2" -> 2 [] t = "3" -> 3
              [] t = "17" -> 17 [] t = "18" -> 18 [] t = "25" -> 25
              [] t = "99" -> 99 [] t = "150" -> 150 [] OTHER -> 0

\* str.isdigit(): on the texts of the model, the numerals
IsDigit(t) == t \in IntTexts

MaxAuth == 2        \* generate_state is called at most MaxAuth times

\* the state tokens generate_state returns: the k-th call returns k
StateTokens == 1..MaxAuth

(***************************************************************************)
(* Helpers on tables.                                                      *)
(***************************************************************************)
\* index of the first of the rows selected, 0 if none  (query ... .first())
FirstIdx(hits) ==
    IF hits = {} THEN 0 ELSE CHOOSE i \in hits : \A j \in hits : i <= j

RemoveAt(rows, i) == [j \in 1..(Len(rows)-1) |-> IF j < i THEN rows[j] ELSE rows[j+1]]

SeqRange(s) == {s[i] : i \in DOMAIN s}

(***************************************************************************)
(* database/crud.py.  Each function is an operator from the table it       *)
(* touches to the table after the call; functions whose return value the   *)
(* callers use have a companion operator <name>_ret.                       *)
(***************************************************************************)
get_user(us, user_id) ==
    LET i == FirstIdx({k \in DOMAIN us : us[k].user_id = user_id})
    IN  IF i = 0 THEN <<>> ELSE <<us[i]>>

\* user_data carries age, gender and city; the state column gets the literal
create_user(us, user_data) ==
    Append(us, [user_id      |-> user_data.user_id,
                age          |-> user_data.age,
                gender       |-> user_data.gender,
                city         |-> user_data.city,
                access_token |-> None,
                state        |-> "main_menu"])

save_user_state(us, user_id, state) ==
    LET i == FirstIdx({k \in DOMAIN us : us[k].user_id = user_id})
    IN  IF i = 0 THEN us ELSE [us EXCEPT ![i].state = state]

\* faulty variant of get_user_state: a value that is no BotState reads as MAIN_MENU
get_user_state_defaulting(us, user_id) ==
    LET u == get_user(us, user_id)
    IN  IF u = <<>> THEN None
        ELSE IF u[1].state \in BotState THEN u[1].state ELSE MAIN_MENU

get_user_state(us, user_id) ==
    LET u == get_user(us, user_id)
    IN  IF u # <<>> /\ u[1].state \in BotState THEN u[1].state ELSE None

update_user_token(us, user_id, token) ==
    LET i == FirstIdx({k \in DOMAIN us : us[k].user_id = user_id})
    IN  IF i = 0 THEN us ELSE [us EXCEPT ![i].access_token = token]

\* column defaults of models.SearchParams
SearchParamsDefaults ==
    [min_age |-> 18, max_age |-> 45, gender |-> None, city |-> None,
     has_photo |-> TRUE, interests |-> None,
     age_weight |-> 100, interests_weight |-> 70,
     groups_weight |-> 50, friends_weight |-> 80]

get_search_params(sp, user_id) ==
    LET i == FirstIdx({k \in DOMAIN sp : sp[k].user_id = user_id})
    IN  IF i = 0 THEN <<>> ELSE <<sp[i]>>

\* kwargs is a record of the columns to set
update_search_params(sp, user_id, kwargs) ==
    LET i == FirstIdx({k \in DOMAIN sp : sp[k].user_id = user_id})
        cols == DOMAIN SearchParamsDefaults
    IN  IF i = 0
        THEN Append(sp, [c \in cols \cup {"user_id"} |->
                           IF c = "user_id" THEN user_id
                           ELSE IF c \in DOMAIN kwargs THEN kwargs[c]
                           ELSE SearchParamsDefaults[c]])
        ELSE [sp EXCEPT ![i] = [c \in DOMAIN sp[i] |->
                           IF c \in DOMAIN kwargs THEN kwargs[c] ELSE sp[i][c]]]

\* faulty variant of add_to_favorites: no look-up before the insert
add_to_favorites_unchecked(fav, user_id, favorite_user_id) ==
    Append(fav, [user_id |-> user_id, favorite_user_id |-> favorite_user_id])

add_to_favorites(fav, user_id, favorite_user_id) ==
    IF \E i \in DOMAIN fav : fav[i].user_id = user_id
                             /\ fav[i].favorite_user_id = favorite_user_id
    THEN fav
    ELSE Append(fav, [user_id |-> user_id, favorite_user_id |-> favorite_user_id])

\* the record returned: the row found by the query, else the row just added
add_to_favorites_ret(fav, user_id, favorite_user_id) ==
    LET i == FirstIdx({k \in DOMAIN fav : fav[k].user_id = user_id /\ fav[k].favorite_user_id = favorite_user_id})
        after == add_to_favorites(fav, user_id, favorite_user_id)
    IN  IF i # 0 THEN fav[i] ELSE after[Len(after)]

remove_from_favorites(fav, user_id, favorite_user_id) ==
    LET i == FirstIdx({k \in DOMAIN fav : fav[k].user_id = user_id /\ fav[k].favorite_user_id = favorite_user_id})
    IN  IF i = 0 THEN fav ELSE RemoveAt(fav, i)

remove_from_favorites_ret(fav, user_id, favorite_user_id) ==
    \E i \in DOMAIN fav : fav[i].user_id = user_id
                          /\ fav[i].favorite_user_id = favorite_user_id

add_to_blacklist(bl, user_id, blocked_user_id) ==
    IF \E i \in DOMAIN bl : bl[i].user_id = user_id
                            /\ bl[i].blocked_user_id = blocked_user_id
    THEN bl
    ELSE Append(bl, [user_id |-> user_id, blocked_user_id |-> blocked_user_id])

add_to_blacklist_ret(bl, user_id, blocked_user_id) ==
    LET i == FirstIdx({k \in DOMAIN bl : bl[k].user_id = user_id /\ bl[k].blocked_user_id = blocked_user_id})
        after == add_to_blacklist(bl, user_id, blocked_user_id)
    IN  IF i # 0 THEN bl[i] ELSE after[Len(after)]

is_in_blacklist(bl, user_id, candidate_id) ==
    \E i \in DOMAIN bl : bl[i].user_id = user_id /\ bl[i].blocked_user_id = candidate_id

get_favorites(fav, user_id) == SelectSeq(fav, LAMBDA r : r.user_id = user_id)

get_blacklist(bl, user_id) == SelectSeq(bl, LAMBDA r : r.user_id = user_id)

\* last_shown 0 is NULL: cache_match does not set it
cache_match(ms, user_id, matched_user_id, photos, match_score) ==
    Append(ms, [user_id |-> user_id, matched_user_id |-> matched_user_id,
                photos |-> photos, match_score |-> match_score, last_shown |-> 0])

like_photo(pl, user_id, photo_owner_id, photo_id) ==
    LET row == [user_id |-> user_id, photo_owner_id |-> photo_owner_id,
                photo_id |-> photo_id]
    IN  IF row \in SeqRange(pl) THEN pl ELSE Append(pl, row)

unlike_photo(pl, user_id, photo_owner_id, photo_id) ==
    LET i == FirstIdx({k \in DOMAIN pl : pl[k].user_id = user_id /\ pl[k].photo_owner_id = photo_owner_id /\ pl[k].photo_id = photo_id})
    IN  IF i = 0 THEN pl ELSE RemoveAt(pl, i)

unlike_photo_ret(pl, user_id, photo_owner_id, photo_id) ==
    \E i \in DOMAIN pl : pl[i] = [user_id |-> user_id,
                                  photo_owner_id |-> photo_owner_id,
                                  photo_id |-> photo_id]

VerifierTTL == 10   \* minutes

\* faulty variant of save_verifier: the owner's prior rows are kept
save_verifier_keeping(as, user_id, verifier, state, t) ==
    Append(as, [user_id |-> user_id, code_verifier |-> verifier, state |-> state,
                expires_at |-> t + VerifierTTL])

save_verifier(as, user_id, verifier, state, t) ==
    Append(SelectSeq(as, LAMBDA r : r.user_id # user_id),
           [user_id |-> user_id, code_verifier |-> verifier, state |-> state,
            expires_at |-> t + VerifierTTL])

\* faulty variant of get_verifier: the expiry is not compared
get_verifier_unexpiring(as, user_id, state, t) ==
    LET i == FirstIdx({k \in DOMAIN as : as[k].user_id = user_id /\ as[k].state = state})
    IN  IF i = 0 THEN None ELSE as[i].code_verifier

get_verifier(as, user_id, state, t) ==
    LET i == FirstIdx({k \in DOMAIN as : as[k].user_id = user_id /\ as[k].state = state /\ as[k].expires_at > t})
    IN  IF i = 0 THEN None ELSE as[i].code_verifier

(***************************************************************************)
(* The upstream social network.  A profile the search returns is a record  *)
(*   [id, age, city, friends, groups, photos]                              *)
(* where age and city are the person's, friends and groups are the numbers *)
(* of friends and groups it has in common with the searcher and photos is  *)
(* what the photo calls return for it (already merged and cut to the top   *)
(* three).                                                                 *)
(***************************************************************************)
\* the people behind the profiles: 1 is the bot user, 2 and 3 are the
\* candidates A and B of the scoring example
ProfileAge(id) == CASE id = 1 -> 30 [] id = 2 -> 32 [] OTHER -> 45
ProfileCity(id) == IF id = 3 THEN "Kyiv" ELSE "Moskva"

SocialOpts == {[friends |-> 0, groups |-> 0],
               [friends |-> 2, groups |-> 0],
               [friends |-> 0, groups |-> 10]}

\* profile 2 has one photo, the other profiles have none
PhotosOf(id) == IF id = 2 THEN <<[owner_id |-> id, id |-> 1]>> ELSE <<>>

ItemsOf(i) ==
    {[id |-> i, age |-> ProfileAge(i), city |-> ProfileCity(i),
      friends |-> s.friends, groups |-> s.groups, photos |-> PhotosOf(i)] :
        s \in SocialOpts}

\* the lists users.search can return: at most MaxPool profiles, no id twice
RECURSIVE SearchResultsOfLen(_)
SearchResultsOfLen(n) ==
    IF n = 0 THEN {<<>>}
    ELSE {Append(r, it) : r \in SearchResultsOfLen(n-1),
                          it \in UNION {ItemsOf(i) : i \in CandIds}}

SearchResults ==
    {r \in UNION {SearchResultsOfLen(n) : n \in 0..MaxPool} :
        \A i, j \in DOMAIN r : i # j => r[i].id # r[j].id}

\* exceptions: type "none" is no exception
NoExc == [type |-> "none", code |-> 0]
ApiError(code) == [type |-> "ApiError", code |-> code]
OperationalError == [type |-> "OperationalError", code |-> 0]
AttributeError == [type |-> "AttributeError", code |-> 0]
\* requests.exceptions.ConnectionError, raised by a call of the VK API while
\* the network is down
ConnectionError == [type |-> "ConnectionError", code |-> 0]

\* str(e) of the exceptions of the model
StrOf(e) ==
    CASE e.type = "ConnectionError"  -> "Connection aborted"
      [] e.type = "AttributeError"   -> "'VKBot' object has no attribute"
      [] e.type = "OperationalError" -> "could not translate host name"
      [] e.type = "ApiError"         -> "[9] Flood control"
      [] OTHER                       -> ""

\* "connection" in text.lower(), on the texts StrOf gives
MentionsConnection(text) == text = "Connection aborted"

(***************************************************************************)
(* The repository functions when the commit may fail.  commit_ok tells     *)
(* whether db.commit() succeeds; the result has the table after the call,  *)
(* the value returned ("True", "False", "None" or "row") and the exception *)
(* that leaves the function.  A failed commit writes nothing.              *)
(***************************************************************************)
\* no try block: the exception of db.commit() leaves the function
save_user_state_txn(us, user_id, state, commit_ok) ==
    IF get_user(us, user_id) = <<>>
    THEN [table |-> us, ret |-> "False", exc |-> NoExc]
    ELSE IF commit_ok
    THEN [table |-> save_user_state(us, user_id, state), ret |-> "True",
          exc |-> NoExc]
    ELSE [table |-> us, ret |-> None, exc |-> OperationalError]

update_user_token_txn(us, user_id, token, commit_ok) ==
    IF get_user(us, user_id) = <<>>
    THEN [table |-> us, ret |-> "False", exc |-> NoExc]
    ELSE IF commit_ok
    THEN [table |-> update_user_token(us, user_id, token), ret |-> "True",
          exc |-> NoExc]
    ELSE [table |-> us, ret |-> "False", exc |-> NoExc]

update_search_params_txn(sp, user_id, kwargs, commit_ok) ==
    IF commit_ok
    THEN [table |-> update_search_params(sp, user_id, kwargs), ret |-> "row",
          exc |-> NoExc]
    ELSE [table |-> sp, ret |-> None, exc |-> NoExc]

\* a pair that is present is returned before anything is written
add_to_favorites_txn(fav, user_id, favorite_user_id, commit_ok) ==
    IF remove_from_favorites_ret(fav, user_id, favorite_user_id) \/ commit_ok
    THEN [table |-> add_to_favorites(fav, user_id, favorite_user_id), ret |-> "row",
          exc |-> NoExc]
    ELSE [table |-> fav, ret |-> None, exc |-> NoExc]

(***************************************************************************)
(* vkapi/methods.py                                                        *)
(***************************************************************************)
\* VKSearch.search: every exception of the upstream call is caught and the
\* result is then the empty list; a dict has no age and no city key (friends,
\* groups and photos stand for what the later calls for that id return)
VKSearch_search(upstream) ==
    IF upstream.search_exc # NoExc THEN <<>>
    ELSE [i \in DOMAIN upstream.result |->
            [id |-> upstream.result[i].id,
             friends |-> upstream.result[i].friends,
             groups |-> upstream.result[i].groups,
             photos |-> upstream.result[i].photos]]

(***************************************************************************)
(* The clients and their request spacing.  Times are hundredths of a       *)
(* second.  g is the record                                                *)
(*   [clock, last_request, called, gap, method]                            *)
(* clock is time.time(); last_request is the attribute of each client;     *)
(* called is the time of the latest upstream call made through each        *)
(* client, -1 before the first; gap is the time between the most recent    *)
(* upstream call and the one before it through the same client, -1 when    *)
(* there was none; method names the most recent upstream call.             *)
(***************************************************************************)
delay == 34

MaxClock == 100

\* the two client objects a CandidateMatcher holds (vk_user and vk_search)
Clients == {"VKUserData", "VKSearch"}

\* __init__ sets last_request = 0 while time.time() is far above delay
NewClients ==
    [clock |-> delay,
     last_request |-> [c \in Clients |-> 0],
     called |-> [c \in Clients |-> -1],
     gap |-> -1, method |-> None]

\* the sleep at the head of get_friends and of search, and the assignment
\* last_request = time.time() that follows it
Throttle(g, c) ==
    LET wait == IF g.clock - g.last_request[c] < delay
                THEN delay - (g.clock - g.last_request[c]) ELSE 0
    IN  [g EXCEPT !.clock = @ + wait, !.last_request[c] = g.clock + wait]

\* the call self.vk.<method>(...) made through client c
UpstreamCall(g, c, method) ==
    [g EXCEPT !.gap = IF g.called[c] = -1 THEN -1 ELSE g.clock - g.called[c],
              !.called[c] = g.clock,
              !.method = method]

get_friends(g) == UpstreamCall(Throttle(g, "VKUserData"), "VKUserData", "friends.get")

\* get_city_id, get_profile and get_groups neither wait nor set last_request
get_city_id(g) == UpstreamCall(g, "VKUserData", "database.getCities")

get_profile(g) == UpstreamCall(g, "VKUserData", "users.get")

get_groups(g) == UpstreamCall(g, "VKUserData", "groups.get")

\* VKSearch.search as far as its timing goes (its get_city_id call goes
\* through a VKUserData object of its own, made for that one call)
search(g) == UpstreamCall(Throttle(g, "VKSearch"), "VKSearch", "users.search")

(***************************************************************************)
(* utils/matching.py, CandidateMatcher                                     *)
(***************************************************************************)
Get(dict, key, default) == IF key \in DOMAIN dict THEN dict[key] ELSE default

Min(a, b) == IF a < b THEN a ELSE b
Max(a, b) == IF a > b THEN a ELSE b
Abs(a) == IF a < 0 THEN -a ELSE a

default_weights == [age |-> 100, city |-> 80, interests |-> 70, groups |-> 60, friends |-> 90]

_get_weights(params) ==
    IF params = <<>> THEN default_weights
    ELSE [age |-> params[1].age_weight, city |-> 80,
          interests |-> params[1].interests_weight,
          groups |-> params[1].groups_weight,
          friends |-> params[1].friends_weight]

\* faulty variant of _should_skip_candidate: the blacklist is not consulted
_should_skip_candidate_no_blacklist(fav, bl, user_id, candidate_id) ==
    \/ candidate_id = user_id
    \/ \E i \in DOMAIN fav : fav[i].user_id = user_id
                              /\ fav[i].favorite_user_id = candidate_id

_should_skip_candidate(fav, bl, user_id, candidate_id) ==
    IF candidate_id = user_id THEN TRUE
    ELSE IF is_in_blacklist(bl, user_id, candidate_id) THEN TRUE
    ELSE LET f == get_favorites(fav, user_id)
         IN  \E i \in DOMAIN f : f[i].favorite_user_id = candidate_id

\* the interests column is never written by the bot, so that term is absent
_calculate_match_score(searcher, params, candidate) ==
    LET weights == _get_weights(params)
        age_part ==
            IF searcher.age # 0 /\ Get(candidate, "age", 0) # 0
            THEN (Max(0, 100 - 10 * Abs(searcher.age - candidate.age)) * weights.age) \div 100
            ELSE 0
        city_part ==
            IF searcher.city # None /\ Get(candidate, "city", None) # None
               /\ Lower(searcher.city) = Lower(candidate.city)
            THEN weights.city ELSE 0
        group_part == (Min(100, 10 * candidate.groups) * weights.groups) \div 100
        friends_part == (Min(100, 20 * candidate.friends) * weights.friends) \div 100
    IN  age_part + city_part + group_part + friends_part

_get_candidate_photos(candidate) == candidate.photos

\* list.sort(key=match_score, reverse=True): stable, descending
RECURSIVE InsertByScore(_, _)
InsertByScore(sorted, c) ==
    IF sorted = <<>> THEN <<c>>
    ELSE IF Head(sorted).match_score >= c.match_score
         THEN <<Head(sorted)>> \o InsertByScore(Tail(sorted), c)
         ELSE <<c>> \o sorted

\* faulty variant of SortByScore: the list is left in the order of the search
SortByScore_unsorted(list) == list

RECURSIVE SortByScore(_)
SortByScore(list) ==
    IF list = <<>> THEN <<>>
    ELSE InsertByScore(SortByScore(SubSeq(list, 1, Len(list) - 1)), list[Len(list)])

\* faulty variant of _cache_candidates: a row is added for every candidate
RECURSIVE _cache_candidates_appending(_, _, _, _)
_cache_candidates_appending(ms, user_id, candidates, t) ==
    IF candidates = <<>> THEN ms
    ELSE _cache_candidates_appending(
             cache_match(ms, user_id, Head(candidates).id, Head(candidates).photos,
                         Head(candidates).match_score),
             user_id, Tail(candidates), t)

RECURSIVE _cache_candidates(_, _, _, _)
_cache_candidates(ms, user_id, candidates, t) ==
    IF candidates = <<>> THEN ms
    ELSE LET c == Head(candidates)
             i == FirstIdx({k \in DOMAIN ms : ms[k].user_id = user_id /\ ms[k].matched_user_id = c.id})
             ms1 == IF i # 0
                    THEN [ms EXCEPT ![i].match_score = c.match_score,
                                    ![i].photos = c.photos,
                                    ![i].last_shown = t]
                    ELSE cache_match(ms, user_id, c.id, c.photos, c.match_score)
         IN  _cache_candidates(ms1, user_id, Tail(candidates), t)

RECURSIVE ScoreAll(_, _, _, _, _, _)
ScoreAll(raw, searcher, params, fav, bl, user_id) ==
    IF raw = <<>> THEN <<>>
    ELSE LET candidate == Head(raw)
             rest == ScoreAll(Tail(raw), searcher, params, fav, bl, user_id)
             score == _calculate_match_score(searcher, params, candidate)
         IN  IF _should_skip_candidate(fav, bl, user_id, candidate.id) THEN rest
             ELSE IF score > 0
                  THEN <<[id |-> candidate.id, match_score |-> score,
                          photos |-> _get_candidate_photos(candidate)]>> \o rest
                  ELSE rest

\* lines 97-103: the criteria find_candidates passes to VKSearch.search, for
\* a searcher and a parameter row as get_user and get_search_params return them
SearchCriteria(searcher, params) ==
    [min_age |-> params[1].min_age,
     max_age |-> params[1].max_age,
     gender |-> IF searcher[1].gender = "female" THEN "male" ELSE "female",
     city |-> searcher[1].city,
     has_photo |-> params[1].has_photo]

\* faulty variant of find_candidates: missing search parameters do not end
\* the call
find_candidates_without_params(us, sp, fav, bl, ms, user_id, upstream, t) ==
    LET searcher == get_user(us, user_id)
        params == get_search_params(sp, user_id)
    IN  IF searcher = <<>>
        THEN [list |-> <<>>, matches |-> ms, searches |-> 0, criteria |-> <<>>]
        ELSE LET raw_candidates == VKSearch_search(upstream)
                 scored == SortByScore(ScoreAll(raw_candidates, searcher[1], params,
                                                fav, bl, user_id))
             IN  IF raw_candidates = <<>>
                 THEN [list |-> <<>>, matches |-> ms, searches |-> 2, criteria |-> <<>>]
                 ELSE [list |-> scored,
                       matches |-> _cache_candidates(ms, user_id, scored, t),
                       searches |-> 2, criteria |-> <<>>]

\* result: the list returned, the matches table after the call, the number
\* of upstream search calls made (the first call's result is overwritten by
\* the second call, whose result is upstream.result) and the criteria passed
\* to them, <<>> when no call is made
find_candidates(us, sp, fav, bl, ms, user_id, upstream, t) ==
    LET searcher == get_user(us, user_id)
        params == get_search_params(sp, user_id)
    IN  IF searcher = <<>> \/ params = <<>>
        THEN [list |-> <<>>, matches |-> ms, searches |-> 0, criteria |-> <<>>]
        ELSE LET raw_candidates == VKSearch_search(upstream)
                 scored == SortByScore(ScoreAll(raw_candidates, searcher[1], params,
                                                fav, bl, user_id))
             IN  IF raw_candidates = <<>>
                 THEN [list |-> <<>>, matches |-> ms, searches |-> 2,
                       criteria |-> <<SearchCriteria(searcher, params)>>]
                 ELSE [list |-> scored,
                       matches |-> _cache_candidates(ms, user_id, scored, t),
                       searches |-> 2,
                       criteria |-> <<SearchCriteria(searcher, params)>>]

\* faulty variant of BestCached: the query is not ordered by score
BestCached_unordered(ms, user_id) == {i \in DOMAIN ms : ms[i].user_id = user_id}

\* the rows order_by(match_score.desc()).first() may return: the order among
\* rows of equal score is not defined
BestCached(ms, user_id) ==
    {i \in DOMAIN ms : ms[i].user_id = user_id
        /\ \A j \in DOMAIN ms : ms[j].user_id = user_id
                                => ms[j].match_score <= ms[i].match_score}

\* lines 338-339: the top of the list find_candidates returned, f its result
TopFound(f) ==
    [ret |-> IF f.list = <<>> THEN <<>> ELSE <<f.list[1]>>,
     matches |-> f.matches, searches |-> f.searches, exc |-> NoExc]

\* faulty variant of get_next_candidate: the row returned is deleted
get_next_candidate_consuming(us, sp, fav, bl, ms, user_id, env, t) ==
    IF BestCached(ms, user_id) # {}
    THEN [ret |-> <<[id |-> ms[env.pick].matched_user_id,
                     match_score |-> ms[env.pick].match_score,
                     photos |-> ms[env.pick].photos]>>,
          matches |-> RemoveAt(ms, env.pick), searches |-> 0, exc |-> NoExc]
    ELSE TopFound(find_candidates(us, sp, fav, bl, ms, user_id, env.upstream, t))

\* env.pick is the row the cache query returns when there is one
get_next_candidate(us, sp, fav, bl, ms, user_id, env, t) ==
    IF env.fault = "db_cache_query"
    THEN [ret |-> <<>>, matches |-> ms, searches |-> 0, exc |-> OperationalError]
    ELSE IF BestCached(ms, user_id) # {}
    THEN [ret |-> <<[id |-> ms[env.pick].matched_user_id,
                     match_score |-> ms[env.pick].match_score,
                     photos |-> ms[env.pick].photos]>>,
          matches |-> ms, searches |-> 0, exc |-> NoExc]
    ELSE TopFound(find_candidates(us, sp, fav, bl, ms, user_id, env.upstream, t))

(***************************************************************************)
(* bot.py, VKBot.  The handlers are operators on a record w holding the    *)
(* tables, user_cache and what the turn has done so far:                   *)
(*   out      the messages sent (messages.send), as tags                   *)
(*   gnc      the number of get_next_candidate attempts                    *)
(*   searches the number of upstream users.search calls                    *)
(*   ret      the candidate get_next_candidate returned last, <<>> if None *)
(*   failed   start_search ended in its except branch                      *)
(*   exc      the exception being raised, NoExc if none                    *)
(* env holds what the environment answers during the turn.                 *)
(***************************************************************************)
send(w, tag) == [w EXCEPT !.out = Append(@, tag)]

set_state(w, user_id, state) ==
    [w EXCEPT !.users = save_user_state(w.users, user_id, state)]

EmptyCache == [current_candidate |-> <<>>, favorites |-> <<>>]

_show_main_menu(w, user_id) == send(set_state(w, user_id, MAIN_MENU), "main_menu")

_init_default_search_params(w, user_id) ==
    LET user == get_user(w.users, user_id)
    IN  IF user = <<>> THEN w
        ELSE LET age == IF user[1].age # 0 THEN user[1].age ELSE 25
             IN  [w EXCEPT !.search_params =
                    update_search_params(w.search_params, user_id,
                        [min_age |-> Max(18, age - 5),
                         max_age |-> age + 5,
                         gender |-> IF user[1].gender = "male" THEN "female" ELSE "male",
                         city |-> user[1].city,
                         has_photo |-> TRUE])]

\* faulty variant of show_candidate: the state is not saved
show_candidate_unsaved(w, user_id, candidate, env) ==
    send([w EXCEPT !.shown[user_id] = candidate.id], "candidate")

\* raises when messages.send raises
show_candidate(w, user_id, candidate, env) ==
    LET w1 == set_state(w, user_id, VIEWING_CANDIDATE)
    IN  IF env.fault = "send_candidate"
        THEN [w1 EXCEPT !.exc = ApiError(901)]
        ELSE send([w1 EXCEPT !.shown[user_id] = candidate.id], "candidate")

\* the turn after get_next_candidate has answered g
Attempted(w, g) ==
    [w EXCEPT !.matches = g.matches, !.gnc = @ + 1,
              !.searches = @ + g.searches, !.ret = g.ret, !.exc = g.exc]

\* one attempt of matcher.get_next_candidate().  The faults gnc_flood (the
\* first attempt of the turn) and gnc_flood_twice (every attempt) make the call
\* raise flood control, which start_search handles; the matcher of this
\* repository lets no ApiError through (see VKSearch_search), so they stand
\* for a matcher that does.
GncAttempt(w, user_id, env, t) ==
    IF (env.fault = "gnc_flood" /\ w.gnc = 0) \/ env.fault = "gnc_flood_twice"
    THEN [w EXCEPT !.gnc = @ + 1, !.ret = <<>>, !.exc = ApiError(9)]
    ELSE Attempted(w, get_next_candidate(w.users, w.search_params, w.favorites,
                                         w.blacklist, w.matches, user_id, env, t))

\* lines 217-228: what start_search does with the candidate obtained
AfterCandidate(w, user_id, env) ==
    IF w.ret = <<>>
    THEN set_state(send(w, "no_candidates"), user_id, MAIN_MENU)
    ELSE show_candidate(
            [w EXCEPT !.user_cache[user_id] =
                        [current_candidate |-> w.ret, favorites |-> <<>>]],
            user_id, w.ret[1], env)

\* lines 199-200: the default parameters are written when none are stored
WithSearchParams(w, user_id) ==
    IF get_search_params(w.search_params, user_id) = <<>>
    THEN _init_default_search_params(w, user_id) ELSE w

\* an attempt that raised leaves the try block, one that answered goes on to
\* lines 217-228
Obtained(a, user_id, env) ==
    IF a.exc # NoExc THEN a ELSE AfterCandidate(a, user_id, env)

\* lines 204-215: a1 is the turn after the first attempt
Retried(a1, user_id, env, t) ==
    IF a1.exc.type = "ApiError" /\ a1.exc.code = 9
    THEN Obtained(GncAttempt(send([a1 EXCEPT !.exc = NoExc], "flood_wait"),
                             user_id, env, t),
                  user_id, env)
    ELSE Obtained(a1, user_id, env)

\* faulty variant of StartSearchTry: flood control is not retried
StartSearchTry_no_retry(w, user_id, env, t) ==
    LET w1 == set_state(w, user_id, SEARCHING)
        user == get_user(w1.users, user_id)
    IN  IF user = <<>> \/ user[1].access_token = None \/ ~env.token_valid
        THEN send(w1, "reauthorize")
        ELSE Obtained(GncAttempt(WithSearchParams(w1, user_id), user_id, env, t),
                      user_id, env)

\* the try block of start_search; the result has exc set when it raises
StartSearchTry(w, user_id, env, t) ==
    LET w1 == set_state(w, user_id, SEARCHING)
        user == get_user(w1.users, user_id)
    IN  IF user = <<>> \/ user[1].access_token = None \/ ~env.token_valid
        THEN send(w1, "reauthorize")
        ELSE Retried(GncAttempt(WithSearchParams(w1, user_id), user_id, env, t),
                     user_id, env, t)

\* lines 230-236: the except block of start_search, b the turn after the try block
SearchExcept(b) ==
    IF b.exc # NoExc
    THEN send([b EXCEPT !.exc = NoExc, !.failed = TRUE], "search_error")
    ELSE b

start_search(w, user_id, env, t) == SearchExcept(StartSearchTry(w, user_id, env, t))

\* faulty variant of show_favorites: a list kept in memory is not renewed
show_favorites_stale(w, user_id) ==
    LET w1 == set_state(w, user_id, FAVORITES)
        favs == get_favorites(w1.favorites, user_id)
    IN  IF favs = <<>>
        THEN set_state(send(w1, "favorites_empty"), user_id, MAIN_MENU)
        ELSE send([w1 EXCEPT !.user_cache[user_id].favorites =
                        IF @ # <<>> THEN @
                        ELSE <<[i \in DOMAIN favs |-> favs[i].favorite_user_id]>>],
                  "favorites_list")

show_favorites(w, user_id) ==
    LET w1 == set_state(w, user_id, FAVORITES)
        favs == get_favorites(w1.favorites, user_id)
    IN  IF favs = <<>>
        THEN set_state(send(w1, "favorites_empty"), user_id, MAIN_MENU)
        ELSE send([w1 EXCEPT !.user_cache[user_id].favorites =
                        <<[i \in DOMAIN favs |-> favs[i].favorite_user_id]>>],
                  "favorites_list")

\* faulty variant of remove_favorite: the index is not compared with the list
remove_favorite_unbounded(w, user_id, index) ==
    IF w.user_cache[user_id].favorites = <<>>
    THEN show_favorites(w, user_id)
    ELSE LET favs == w.user_cache[user_id].favorites[1]
             favorite_id == favs[IF index < 1 \/ index > Len(favs) THEN 1 ELSE index]
             ok == remove_from_favorites_ret(w.favorites, user_id, favorite_id)
             w1 == [w EXCEPT !.favorites =
                      remove_from_favorites(w.favorites, user_id, favorite_id)]
         IN  show_favorites(
                send(w1, IF ok THEN "favorite_removed" ELSE "favorite_not_removed"),
                user_id)

remove_favorite(w, user_id, index) ==
    IF w.user_cache[user_id].favorites = <<>>
    THEN show_favorites(w, user_id)
    ELSE LET favs == w.user_cache[user_id].favorites[1]
         IN  IF index < 1 \/ index > Len(favs)
             THEN send(w, "bad_favorite_number")
             ELSE LET favorite_id == favs[index]
                      ok == remove_from_favorites_ret(w.favorites, user_id, favorite_id)
                      w1 == [w EXCEPT !.favorites =
                               remove_from_favorites(w.favorites, user_id, favorite_id)]
                  IN  show_favorites(
                         send(w1, IF ok THEN "favorite_removed" ELSE "favorite_not_removed"),
                         user_id)

RECURSIVE LikeAll(_, _, _)
LikeAll(pl, user_id, photos) ==
    IF photos = <<>> THEN pl
    ELSE LikeAll(like_photo(pl, user_id, Head(photos).owner_id, Head(photos).id),
                 user_id, Tail(photos))

RECURSIVE UnlikeAll(_, _, _)
UnlikeAll(pl, user_id, photos) ==
    IF photos = <<>> THEN pl
    ELSE UnlikeAll(unlike_photo(pl, user_id, Head(photos).owner_id, Head(photos).id),
                   user_id, Tail(photos))

like_candidate_photos(w, user_id, candidate_id) ==
    LET c == w.user_cache[user_id].current_candidate
    IN  IF c = <<>> \/ c[1].photos = <<>> THEN w
        ELSE send([w EXCEPT !.photo_likes = LikeAll(w.photo_likes, user_id, c[1].photos)],
                  "liked")

unlike_candidate_photos(w, user_id, candidate_id) ==
    LET c == w.user_cache[user_id].current_candidate
    IN  IF c = <<>> \/ c[1].photos = <<>> THEN w
        ELSE LET unliked == \E i \in DOMAIN c[1].photos :
                               unlike_photo_ret(w.photo_likes, user_id,
                                                c[1].photos[i].owner_id, c[1].photos[i].id)
                 w1 == [w EXCEPT !.photo_likes =
                            UnlikeAll(w.photo_likes, user_id, c[1].photos)]
             IN  IF unliked THEN send(w1, "unliked") ELSE w1

VKBot_add_to_favorites(w, user_id, candidate_id) ==
    send([w EXCEPT !.favorites = add_to_favorites(w.favorites, user_id, candidate_id)],
         "added_to_favorites")

VKBot_add_to_blacklist(w, user_id, candidate_id, env, t) ==
    start_search(
        send([w EXCEPT !.blacklist = add_to_blacklist(w.blacklist, user_id, candidate_id)],
             "added_to_blacklist"),
        user_id, env, t)

show_search_settings(w, user_id) ==
    LET w1 == set_state(w, user_id, SEARCH_SETTINGS)
        w2 == IF get_search_params(w1.search_params, user_id) = <<>>
              THEN _init_default_search_params(w1, user_id) ELSE w1
    IN  send(w2, "search_settings")

_ask_min_age(w, user_id) == send(set_state(w, user_id, AWAITING_MIN_AGE), "ask_min_age")
_ask_max_age(w, user_id) == send(set_state(w, user_id, AWAITING_MAX_AGE), "ask_max_age")
_ask_city(w, user_id) == send(set_state(w, user_id, AWAITING_CITY), "ask_city")

show_blacklist(w, user_id) == send(w, "blacklist")
show_help(w, user_id) == send(w, "help")

\* a call of a method the class does not define
Missing(w) == [w EXCEPT !.exc = AttributeError]

\* faulty variant of _process_age_input: the number always goes to min_age
_process_age_input_min_only(w, user_id, text, age_type) ==
    IF IsDigit(text) /\ IntOf(text) >= 18 /\ IntOf(text) <= 99
    THEN show_search_settings(
            [w EXCEPT !.search_params =
                update_search_params(w.search_params, user_id, [min_age |-> IntOf(text)])],
            user_id)
    ELSE set_state(send(w, "bad_age"), user_id,
                   IF age_type = "min" THEN AWAITING_MIN_AGE ELSE AWAITING_MAX_AGE)

_process_age_input(w, user_id, text, age_type) ==
    IF IsDigit(text) /\ IntOf(text) >= 18 /\ IntOf(text) <= 99
    THEN show_search_settings(
            [w EXCEPT !.search_params =
                update_search_params(w.search_params, user_id,
                    IF age_type = "min" THEN [min_age |-> IntOf(text)]
                                        ELSE [max_age |-> IntOf(text)])],
            user_id)
    ELSE set_state(send(w, "bad_age"), user_id,
                   IF age_type = "min" THEN AWAITING_MIN_AGE ELSE AWAITING_MAX_AGE)

\* faulty variant of _process_city_input: the city is not written
_process_city_input_unsaved(w, user_id, text) == show_search_settings(w, user_id)

_process_city_input(w, user_id, text) ==
    show_search_settings(
        [w EXCEPT !.search_params =
            update_search_params(w.search_params, user_id, [city |-> text])],
        user_id)

_process_priority_selection(w, user_id, text) ==
    LET priority_map ==
            CASE text = "age_first" -> <<[age_weight |-> 100, interests_weight |-> 70]>>
              [] text \in {"music_first", "books_first"} ->
                     <<[interests_weight |-> 100, age_weight |-> 70]>>
              [] text = "friends_first" -> <<[friends_weight |-> 100, age_weight |-> 70]>>
              [] OTHER -> <<>>
    IN  IF priority_map # <<>>
        THEN send([w EXCEPT !.search_params =
                      update_search_params(w.search_params, user_id, priority_map[1])],
                  "priority_set")
        ELSE send(w, "bad_priority")

_handle_main_menu(w, user_id, text, env, t) ==
    CASE text = "find_pair" -> start_search(w, user_id, env, t)
      [] text = "favorites" -> show_favorites(w, user_id)
      [] text = "settings"  -> show_search_settings(w, user_id)
      [] text = "blacklist" -> show_blacklist(w, user_id)
      [] text = "help"      -> show_help(w, user_id)
      [] OTHER              -> send(w, "hint_menu")

\* faulty variant of _handle_candidate_actions: any other text leads to the menu
_handle_candidate_actions_to_menu(w, user_id, text, env, t) ==
    LET candidate == w.user_cache[user_id].current_candidate
    IN  IF candidate = <<>> THEN start_search(w, user_id, env, t)
        ELSE CASE text = "like"         -> like_candidate_photos(w, user_id, candidate[1].id)
               [] text = "unlike"       -> unlike_candidate_photos(w, user_id, candidate[1].id)
               [] text = "to_favorites" -> VKBot_add_to_favorites(w, user_id, candidate[1].id)
               [] text = "to_blacklist" ->
                      VKBot_add_to_blacklist(w, user_id, candidate[1].id, env, t)
               [] text = "next"         -> start_search(w, user_id, env, t)
               [] OTHER                 -> _show_main_menu(w, user_id)

_handle_candidate_actions(w, user_id, text, env, t) ==
    LET candidate == w.user_cache[user_id].current_candidate
    IN  IF candidate = <<>> THEN start_search(w, user_id, env, t)
        ELSE CASE text = "like"         -> like_candidate_photos(w, user_id, candidate[1].id)
               [] text = "unlike"       -> unlike_candidate_photos(w, user_id, candidate[1].id)
               [] text = "to_favorites" -> VKBot_add_to_favorites(w, user_id, candidate[1].id)
               [] text = "to_blacklist" ->
                      VKBot_add_to_blacklist(w, user_id, candidate[1].id, env, t)
               [] text = "next"         -> start_search(w, user_id, env, t)
               [] text = "to_menu"      -> _show_main_menu(w, user_id)
               [] OTHER                 -> send(w, "hint_candidate")

_handle_favorites_actions(w, user_id, text) ==
    CASE text = "view"   -> Missing(w)
      [] text = "delete" -> Missing(w)
      [] text = "back"   -> _show_main_menu(w, user_id)
      [] OTHER -> IF IsDigit(text) THEN remove_favorite(w, user_id, IntOf(text))
                  ELSE send(w, "hint_favorites")

_handle_settings_actions(w, user_id, text) ==
    CASE text = "age_from"   -> _ask_min_age(w, user_id)
      [] text = "age_to"     -> _ask_max_age(w, user_id)
      [] text = "city"       -> _ask_city(w, user_id)
      [] text = "gender"     -> Missing(w)
      [] text = "priorities" -> Missing(w)
      [] text = "done"       -> _show_main_menu(w, user_id)
      [] text = "back"       -> _show_main_menu(w, user_id)
      [] OTHER               -> send(w, "hint_settings")

handle_message(w, user_id, text, env, t) ==
    LET state == get_user_state(w.users, user_id)
    IN  IF Lower(text) \in GlobalCommands THEN _show_main_menu(w, user_id)
        ELSE IF state = AWAITING_MIN_AGE
        THEN set_state(_process_age_input(w, user_id, text, "min"), user_id, SEARCH_SETTINGS)
        ELSE IF state = AWAITING_MAX_AGE
        THEN set_state(_process_age_input(w, user_id, text, "max"), user_id, SEARCH_SETTINGS)
        ELSE IF state = AWAITING_CITY
        THEN set_state(_process_city_input(w, user_id, text), user_id, SEARCH_SETTINGS)
        ELSE CASE state = MAIN_MENU         -> _handle_main_menu(w, user_id, text, env, t)
               [] state = VIEWING_CANDIDATE -> _handle_candidate_actions(w, user_id, text, env, t)
               [] state = FAVORITES         -> _handle_favorites_actions(w, user_id, text)
               [] state = SEARCH_SETTINGS   -> _handle_settings_actions(w, user_id, text)
               [] state = PRIORITY_SETTINGS ->
                      IF text = "back" THEN show_search_settings(w, user_id)
                      ELSE _process_priority_selection(w, user_id, text)
               [] OTHER -> _show_main_menu(w, user_id)

(***************************************************************************)
(* vkapi/auth.py: extract_auth_params on the redirect URLs of the model;   *)
(* <<>> is the empty dict returned when code or state is missing.          *)
(* url_nostate has a code and no state parameter, url_nocode has a state   *)
(* and an empty code parameter.                                            *)
(***************************************************************************)
\* the query parameters parse_qs finds; an absent or blank code is None, an
\* absent state is 0 (the state tokens are numbered from 1)
QueryOf(text) ==
    CASE text = "url_st1" -> [code |-> "c1", state |-> 1, device_id |-> "d1"]
      [] text = "url_st2" -> [code |-> "c1", state |-> 2, device_id |-> "d1"]
      [] text = "url_st3" -> [code |-> "c1", state |-> 3, device_id |-> "d1"]
      [] text = "url_nostate" -> [code |-> "c1", state |-> 0, device_id |-> "d1"]
      [] text = "url_nocode" -> [code |-> None, state |-> 1, device_id |-> "d1"]
      [] OTHER -> [code |-> None, state |-> 0, device_id |-> None]

\* faulty variant of extract_auth_params: the parameters are not required
extract_auth_params_lenient(text) == <<QueryOf(text)>>

extract_auth_params(text) ==
    IF QueryOf(text).code = None \/ QueryOf(text).state = 0 THEN <<>>
    ELSE <<QueryOf(text)>>

\* the profiles users.get returns for the bot user: sex 1 is female
UserInfos == {[sex |-> 2, city |-> "Moskva"]}

\* the external account a token was issued to; "tok" is the token of the bot
\* user 1, "tok2" the token of the account 2
TokenOwner(token) == IF token = "tok2" THEN 2 ELSE 1

\* vkapi/auth.py, get_access_token: the pair (access_token, user_id) of the
\* upstream answer.  The answer is "ok" when the account that granted access
\* is the one that writes to the bot, "other" when it is another account
\* (the link was opened while logged in as account 2), "fail" when the
\* exchange is refused.
get_access_token(exchange, user_id) ==
    CASE exchange = "ok"    -> [token |-> "tok", vk_id |-> user_id]
      [] exchange = "other" -> [token |-> "tok2", vk_id |-> TokenOwner("tok2")]
      [] OTHER              -> [token |-> None, vk_id |-> 0]

\* the result has resp: the text handle_auth_flow returns, None if it returns
\* None; lookups and exchanges count the calls of get_verifier and of
\* get_access_token
handle_auth_flow(w, user_id, rawtext, env, t) ==
    LET text == Strip(rawtext)
    IN  IF Lower(text) = "avtorizovatsya"
        THEN LET w1 == [w EXCEPT !.auth_states =
                          save_verifier(w.auth_states, user_id, "v1", env.st, t)]
                 w2 == IF get_user(w1.users, user_id) = <<>>
                       THEN [w1 EXCEPT !.users = create_user(w1.users,
                               [user_id |-> user_id, age |-> 0,
                                gender |-> IF env.user_info.sex = 1 THEN "female" ELSE "male",
                                city |-> env.user_info.city])]
                       ELSE w1
             IN  [set_state(w2, user_id, MAIN_MENU) EXCEPT !.resp = "auth_link"]
        ELSE IF ContainsCode(text)
        THEN LET params == extract_auth_params(text)
             IN  IF params = <<>> THEN [w EXCEPT !.resp = "bad_auth_params"]
                 ELSE LET verifier == get_verifier(w.auth_states, user_id, params[1].state, t)
                      IN  IF verifier = None
                          THEN [w EXCEPT !.lookups = @ + 1, !.resp = "session_expired"]
                          ELSE LET w1 == [w EXCEPT !.lookups = @ + 1, !.exchanges = @ + 1]
                                   got == get_access_token(env.exchange, user_id)
                               IN  IF got.token = None \/ got.vk_id = 0
                                   THEN [w1 EXCEPT !.resp = "token_error"]
                                   ELSE IF get_user(w1.users, user_id) = <<>>
                                   \* user_data has no gender key: create_user raises KeyError
                                   THEN [w1 EXCEPT !.resp = "profile_error"]
                                   ELSE send(set_state(
                                                [w1 EXCEPT !.users =
                                                    update_user_token(w1.users, user_id, got.token)],
                                                user_id, MAIN_MENU),
                                             "auth_success")
        ELSE w

\* messages.send called by run() itself; it raises while the network is down
Reply(a, tag, env) ==
    IF env.fault = "send_connection" THEN [a EXCEPT !.exc = ConnectionError]
    ELSE send(a, tag)

\* faulty variant of AfterAuthFlow: a profile without token is let through
AfterAuthFlow_tokenless(a, user_id, text, env, t) ==
    IF a.resp # None THEN Reply(a, a.resp, env)
    ELSE IF get_user(a.users, user_id) = <<>>
    THEN Reply(a, "authorize_prompt", env)
    ELSE handle_message([a EXCEPT !.handled = TRUE], user_id, text, env, t)

\* lines 943-964: a the turn after handle_auth_flow
AfterAuthFlow(a, user_id, text, env, t) ==
    IF a.resp # None THEN Reply(a, a.resp, env)
    ELSE IF get_user(a.users, user_id) = <<>>
            \/ get_user(a.users, user_id)[1].access_token = None
    THEN Reply(a, "authorize_prompt", env)
    ELSE handle_message([a EXCEPT !.handled = TRUE], user_id, text, env, t)

\* the body of the event loop of run() for one message
run(w, user_id, text, env, t) ==
    AfterAuthFlow(handle_auth_flow(w, user_id, text, env, t), user_id, text, env, t)

(***************************************************************************)
(* The state machine.                                                      *)
(***************************************************************************)
IdleTurn ==
    [user |-> 0, text |-> None, arg |-> 0, before |-> None, out |-> <<>>,
     raw |-> <<>>, found |-> <<>>, gnc |-> 0, searches |-> 0, exchanges |-> 0,
     lookups |-> 0, ret |-> <<>>, failed |-> FALSE,
     handled |-> FALSE, exc |-> NoExc, fault |-> "none"]

World ==
    [users |-> users, search_params |-> search_params, favorites |-> favorites,
     blacklist |-> blacklist, matches |-> matches, photo_likes |-> photo_likes,
     auth_states |-> auth_states, user_cache |-> user_cache, shown |-> shown,
     out |-> <<>>, gnc |-> 0, searches |-> 0, exchanges |-> 0, lookups |-> 0,
     ret |-> <<>>, failed |-> FALSE, handled |-> FALSE, exc |-> NoExc, resp |-> None]

DefaultEnv ==
    [token_valid |-> TRUE, upstream |-> [result |-> <<>>, search_exc |-> NoExc],
     fault |-> "none", pick |-> 0, reinit |-> "ok",
     user_info |-> [sex |-> 2, city |-> "Moskva"], st |-> 0, exchange |-> "ok"]

StoredState(us, user_id) ==
    IF get_user(us, user_id) = <<>> THEN None ELSE get_user(us, user_id)[1].state

\* lines 966-969, the except block of run(): the exception is logged, and
\* when its text mentions a connection _init_group_session is called, whose
\* own exception (env.reinit = "raises") leaves run()
LoopAfter(exc, env) ==
    IF exc # NoExc /\ MentionsConnection(StrOf(exc)) /\ env.reinit = "raises"
    THEN "stopped" ELSE "listening"

\* the variables after a turn that ended as w
Handled(w, user_id, text, env) ==
    /\ users' = w.users
    /\ search_params' = w.search_params
    /\ favorites' = w.favorites
    /\ blacklist' = w.blacklist
    /\ matches' = w.matches
    /\ photo_likes' = w.photo_likes
    /\ auth_states' = w.auth_states
    /\ user_cache' = w.user_cache
    /\ turn' = [user |-> user_id, text |-> text, arg |-> 0, found |-> <<>>,
                before |-> StoredState(users, user_id),
                out |-> w.out,
                raw |-> IF w.searches > 0 THEN env.upstream.result ELSE <<>>,
                gnc |-> w.gnc, searches |-> w.searches,
                exchanges |-> w.exchanges, lookups |-> w.lookups,
                ret |-> w.ret, failed |-> w.failed,
                handled |-> w.handled, exc |-> w.exc, fault |-> env.fault]
    /\ issued' = IF env.st # 0 THEN env.st ELSE issued
    /\ loop' = LoopAfter(w.exc, env)
    /\ shown' = w.shown
    /\ UNCHANGED <<now, gateway>>

\* one message is handled
Handle(user_id, text, env) ==
    /\ loop = "listening"
    /\ Handled(run(World, user_id, text, env, now), user_id, text, env)

Authorized(user_id) ==
    get_user(users, user_id) # <<>> /\ get_user(users, user_id)[1].access_token # None

\* the texts a user sends, by the state the user is in
Inputs(state) ==
    {"menu", "MENU", "abc"} \cup
    CASE state = MAIN_MENU -> {"find_pair", "favorites", "settings", "blacklist", "help", "next"}
      [] state = VIEWING_CANDIDATE ->
             {"like", "unlike", "to_favorites", "to_blacklist", "next", "to_menu", "find_pair"}
      [] state = FAVORITES -> {"view", "delete", "back", "0", "1", "2"}
      [] state = SEARCH_SETTINGS ->
             {"age_from", "age_to", "city", "gender", "priorities", "done", "back"}
      [] state = PRIORITY_SETTINGS ->
             {"age_first", "music_first", "books_first", "friends_first", "back"}
      [] state = AWAITING_MIN_AGE -> {"17", "25", "150"}
      [] state = AWAITING_MAX_AGE -> {"17", "18", "150"}
      [] state = AWAITING_CITY -> {"find_pair"}
      [] OTHER -> {"find_pair"}

\* the texts of a dialogue about the search parameters
SettingsTexts ==
    {"menu", "MENU", "abc", "settings", "age_from", "age_to", "city", "gender",
     "priorities", "back", "17", "18", "25", "150", "find_pair", "favorites",
     "to_favorites"}

\* the texts of a dialogue about candidates
CandidateTexts ==
    {"menu", "find_pair", "next", "like", "unlike", "to_favorites", "to_blacklist",
     "to_menu", "favorites", "back", "view", "0", "1", "2"}

\* the turn reaches start_search
CallsSearch(user_id, text) ==
    LET state == get_user_state(users, user_id)
    IN  /\ Lower(text) \notin GlobalCommands
        /\ \/ state = MAIN_MENU /\ text = "find_pair"
           \/ state = VIEWING_CANDIDATE
              /\ (user_cache[user_id].current_candidate = <<>>
                  \/ text \in {"next", "to_blacklist"})

\* the places where a store or upstream call may raise
Faults == {"none", "db_cache_query", "send_candidate", "search_flood",
           "gnc_flood", "gnc_flood_twice"}

\* upstream answers with at most one profile
ShortResults == SearchResultsOfLen(0) \cup SearchResultsOfLen(1)

\* 'авторизоваться'; again: also from a user who is authorized already
AuthStart(user_id, again) ==
    /\ issued < MaxAuth
    /\ again \/ ~Authorized(user_id)
    /\ \E info \in UserInfos :
          Handle(user_id, "avtorizovatsya",
                 [DefaultEnv EXCEPT !.user_info = info, !.st = issued + 1])

\* a text containing 'code='
AuthRedirect(user_id, urls, exchanges) ==
    \E text \in urls, exchange \in exchanges :
        Handle(user_id, text, [DefaultEnv EXCEPT !.exchange = exchange])

\* any other text from a user without profile or token
Unauthorized(user_id) ==
    /\ ~Authorized(user_id)
    /\ \E text \in Inputs(StoredState(users, user_id)) : Handle(user_id, text, DefaultEnv)

\* one of texts from an authorized user that does not lead to start_search
Command(user_id, texts) ==
    /\ Authorized(user_id)
    /\ \E text \in Inputs(get_user_state(users, user_id)) \cap texts :
          /\ ~CallsSearch(user_id, text)
          /\ Handle(user_id, text, DefaultEnv)

\* one of texts from an authorized user that leads to start_search
Search(user_id, texts, results, faults) ==
    /\ Authorized(user_id)
    /\ \E text \in Inputs(get_user_state(users, user_id)) \cap texts :
          /\ CallsSearch(user_id, text)
          /\ \E token_valid \in BOOLEAN, fault \in faults :
             \E pick \in (IF BestCached(matches, user_id) # {}
                          THEN BestCached(matches, user_id) ELSE {0}) :
             \E result \in (IF BestCached(matches, user_id) # {} \/ ~token_valid
                               \/ fault \in {"db_cache_query", "search_flood",
                                            "gnc_flood_twice"}
                            THEN {<<>>} ELSE results) :
                Handle(user_id, text,
                       [DefaultEnv EXCEPT !.token_valid = token_valid, !.fault = fault,
                           !.pick = pick,
                           !.upstream = [result |-> result,
                                         search_exc |-> IF fault = "search_flood"
                                                        THEN ApiError(9) ELSE NoExc]])

\* the process is restarted: user_cache is lost, the store is kept
Restart ==
    /\ loop = "stopped" \/ \E u \in UserIds : user_cache[u] # EmptyCache
    /\ user_cache' = [u \in UserIds |-> EmptyCache]
    /\ shown' = [u \in UserIds |-> 0]
    /\ loop' = "listening"
    /\ turn' = IdleTurn
    /\ UNCHANGED <<users, search_params, favorites, blacklist, matches, photo_likes,
                   auth_states, now, issued, gateway>>

\* time passes
Tick ==
    /\ now + (VerifierTTL \div 2) <= MaxTime
    /\ now' = now + (VerifierTTL \div 2)
    /\ turn' = IdleTurn
    /\ UNCHANGED <<users, search_params, favorites, blacklist, matches, photo_likes,
                   auth_states, user_cache, issued, loop, gateway, shown>>

MaxSaves == 3

\* the owners of authorization challenges: the bot user and another user
OwnerIds == {1, 2}

\* the texts handle_auth_flow treats as a redirect URL
RedirectTexts == {"url_st1", "url_st2", "url_st3", "url_nostate", "url_nocode"}

\* crud.save_verifier called for owner with a new state token
SaveVerifier(owner) ==
    /\ issued < MaxSaves
    /\ auth_states' = save_verifier(auth_states, owner, "v2", issued + 1, now)
    /\ issued' = issued + 1
    /\ turn' = [IdleTurn EXCEPT !.user = owner, !.text = "save_verifier",
                    !.arg = issued + 1, !.ret = <<TRUE>>]
    /\ UNCHANGED <<users, search_params, favorites, blacklist, matches, photo_likes,
                   user_cache, now, loop, gateway, shown>>

\* crud.get_verifier called for owner and a state token
GetVerifier(owner, state) ==
    /\ turn' = [IdleTurn EXCEPT !.user = owner, !.text = "get_verifier",
                    !.arg = state,
                    !.ret = <<get_verifier(auth_states, owner, state, now)>>]
    /\ UNCHANGED <<users, search_params, favorites, blacklist, matches, photo_likes,
                   auth_states, user_cache, now, issued, loop, gateway, shown>>

Init ==
    /\ users = <<>>
    /\ search_params = <<>>
    /\ favorites = <<>>
    /\ blacklist = <<>>
    /\ matches = <<>>
    /\ photo_likes = <<>>
    /\ auth_states = <<>>
    /\ user_cache = [u \in UserIds |-> EmptyCache]
    /\ now = 0
    /\ issued = 0
    /\ loop = "listening"
    /\ gateway = NewClients
    /\ shown = [u \in UserIds |-> 0]
    /\ turn = IdleTurn

\* a dialogue about the search parameters, upstream answering with at most one profile
Next ==
    \/ \E u \in UserIds : AuthStart(u, TRUE)
    \/ \E u \in UserIds : AuthRedirect(u, {"url_st1"}, {"ok"})
    \/ \E u \in UserIds : Unauthorized(u)
    \/ \E u \in UserIds : Command(u, SettingsTexts)
    \/ \E u \in UserIds : Search(u, SettingsTexts, ShortResults, {"none"})

\* a dialogue about candidates, the search parameters left as created
NextSearch ==
    \/ \E u \in UserIds : AuthStart(u, FALSE)
    \/ \E u \in UserIds : AuthRedirect(u, {"url_st1"}, {"ok"})
    \/ \E u \in UserIds : Command(u, CandidateTexts)
    \/ \E u \in UserIds : Search(u, CandidateTexts, SearchResults, {"none"})
    \/ Restart

\* a dialogue about candidates while store and upstream calls may raise
NextFault ==
    \/ \E u \in UserIds : AuthStart(u, FALSE)
    \/ \E u \in UserIds : AuthRedirect(u, {"url_st1"}, {"ok"})
    \/ \E u \in UserIds : Command(u, CandidateTexts)
    \/ \E u \in UserIds : Search(u, CandidateTexts, ShortResults, Faults)
    \/ Restart

\* the ages the users table may hold for the owner: 0 is NULL, which is what
\* the bot writes; 30 is the owner of the scoring example
OwnerAges == {0, 30}

\* how far the owner has got: no profile, a profile without search
\* parameters, or an authorized profile with the default parameters
StoreStages == {"empty", "profile", "params"}

StoreUsers(stage, age) ==
    IF stage = "empty" THEN <<>>
    ELSE update_user_token(
             save_user_state(
                 create_user(<<>>, [user_id |-> 1, age |-> age, gender |-> "male",
                                    city |-> "Moskva"]),
                 1, MAIN_MENU),
             1, "tok")

\* the stores the matcher and the repository functions are called from
InitStore ==
    \E stage \in StoreStages, age \in OwnerAges :
        /\ stage # "params" => age = 0
        /\ users = StoreUsers(stage, age)
        /\ search_params =
               IF stage = "params"
               THEN _init_default_search_params(
                        [users |-> StoreUsers(stage, age), search_params |-> <<>>],
                        1).search_params
               ELSE <<>>
        /\ favorites = <<>>
        /\ blacklist = <<>>
        /\ matches = <<>>
        /\ photo_likes = <<>>
        /\ auth_states = <<>>
        /\ user_cache = [u \in UserIds |-> EmptyCache]
        /\ now = 0
        /\ issued = 1
        /\ loop = "listening"
        /\ gateway = NewClients
        /\ shown = [u \in UserIds |-> 0]
        /\ turn = IdleTurn

\* crud.add_to_favorites called for the pair (user_id, c)
AddFavorite(user_id, c) ==
    /\ get_user(users, user_id) # <<>>
    /\ favorites' = add_to_favorites(favorites, user_id, c)
    /\ turn' = [IdleTurn EXCEPT !.user = user_id, !.text = "add_to_favorites", !.arg = c,
                    !.ret = <<add_to_favorites_ret(favorites, user_id, c)>>]
    /\ UNCHANGED <<users, search_params, blacklist, matches, photo_likes,
                   auth_states, user_cache, now, issued, loop, gateway, shown>>

\* crud.remove_from_favorites called for the pair (user_id, c)
RemoveFavorite(user_id, c) ==
    /\ get_user(users, user_id) # <<>>
    /\ favorites' = remove_from_favorites(favorites, user_id, c)
    /\ turn' = [IdleTurn EXCEPT !.user = user_id, !.text = "remove_from_favorites",
                    !.arg = c]
    /\ UNCHANGED <<users, search_params, blacklist, matches, photo_likes,
                   auth_states, user_cache, now, issued, loop, gateway, shown>>

\* crud.add_to_blacklist called for the pair (user_id, c)
AddBlacklist(user_id, c) ==
    /\ get_user(users, user_id) # <<>>
    /\ blacklist' = add_to_blacklist(blacklist, user_id, c)
    /\ turn' = [IdleTurn EXCEPT !.user = user_id, !.text = "add_to_blacklist", !.arg = c,
                    !.ret = <<add_to_blacklist_ret(blacklist, user_id, c)>>]
    /\ UNCHANGED <<users, search_params, favorites, matches, photo_likes,
                   auth_states, user_cache, now, issued, loop, gateway, shown>>

\* the same profiles after each has uploaded a new photo
NewPhotos(result) ==
    [i \in DOMAIN result |->
        [result[i] EXCEPT !.photos = <<[owner_id |-> result[i].id, id |-> 2]>>]]

\* what users.search returns when find_candidates is run again
LaterResults == {NewPhotos(r) : r \in ShortResults}

\* CandidateMatcher.find_candidates: called by get_next_candidate when the
\* owner has no cache row (fresh), or called again while rows exist; arg
\* records the number of cache rows before the call.  A run that has returned
\* nothing has changed nothing, and the next run is not explored from the
\* state after it: it is explored from the state before it.
FindCandidates(user_id, fresh) ==
    /\ (BestCached(matches, user_id) = {}) = fresh
    /\ ~(turn.text = "find_candidates" /\ turn.found = <<>>)
    /\ \E result \in (IF fresh THEN SearchResults ELSE LaterResults) :
          LET f == find_candidates(users, search_params, favorites, blacklist, matches,
                                   user_id, [result |-> result, search_exc |-> NoExc],
                                   now)
          IN  /\ matches' = f.matches
              /\ turn' = [IdleTurn EXCEPT !.user = user_id, !.text = "find_candidates",
                              !.arg = Len(matches),
                              !.raw = result, !.found = f.list,
                              !.searches = f.searches]
    /\ UNCHANGED <<users, search_params, favorites, blacklist, photo_likes,
                   auth_states, user_cache, now, issued, loop, gateway, shown>>

\* the store and matcher operations called one by one
NextStore ==
    \/ \E u \in UserIds, c \in CandIds \ UserIds : AddFavorite(u, c)
    \/ \E u \in UserIds, c \in CandIds \ UserIds : RemoveFavorite(u, c)
    \/ \E u \in UserIds, c \in CandIds \ UserIds : AddBlacklist(u, c)
    \/ \E u \in UserIds : FindCandidates(u, TRUE)
    \/ \E u \in UserIds : FindCandidates(u, FALSE)

\* a message arrives while the network is down: the reply run() sends raises
Offline(user_id) ==
    /\ issued < MaxAuth
    /\ \E text \in {"avtorizovatsya", "abc"}, reinit \in {"ok", "raises"} :
          /\ text = "abc" => ~Authorized(user_id)
          /\ Handle(user_id, text,
                    [DefaultEnv EXCEPT !.fault = "send_connection", !.reinit = reinit,
                        !.st = IF text = "avtorizovatsya" THEN issued + 1 ELSE 0])

\* a dialogue about the search parameters while the network may be down
NextLoop ==
    \/ \E u \in UserIds : AuthStart(u, FALSE)
    \/ \E u \in UserIds : AuthRedirect(u, {"url_st1"}, {"ok"})
    \/ \E u \in UserIds : Unauthorized(u)
    \/ \E u \in UserIds : Offline(u)
    \/ \E u \in UserIds : Command(u, SettingsTexts)
    \/ Restart

\* crud.create_user called for a user who has no profile
CreateUser(user_id) ==
    /\ get_user(users, user_id) = <<>>
    /\ \E info \in UserInfos :
          users' = create_user(users,
                      [user_id |-> user_id, age |-> 0,
                       gender |-> IF info.sex = 1 THEN "female" ELSE "male",
                       city |-> info.city])
    /\ turn' = [IdleTurn EXCEPT !.user = user_id, !.text = "create_user"]
    /\ UNCHANGED <<search_params, favorites, blacklist, matches, photo_likes,
                   auth_states, user_cache, now, issued, loop, gateway, shown>>

\* the turn record of a repository call that ended as r
Called(user_id, name, c, r, commit_ok) ==
    [IdleTurn EXCEPT !.user = user_id, !.text = name, !.arg = c,
                     !.before = StoredState(users, user_id),
                     !.ret = <<r.ret>>, !.exc = r.exc,
                     !.fault = IF commit_ok THEN "none" ELSE "commit"]

\* crud.save_user_state called for a user who has a profile
SaveUserState(user_id, state, commit_ok) ==
    /\ get_user(users, user_id) # <<>>
    /\ users' = save_user_state_txn(users, user_id, state, commit_ok).table
    /\ turn' = Called(user_id, "save_user_state", 0,
                      save_user_state_txn(users, user_id, state, commit_ok), commit_ok)
    /\ UNCHANGED <<search_params, favorites, blacklist, matches, photo_likes,
                   auth_states, user_cache, now, issued, loop, gateway, shown>>

\* crud.update_user_token
UpdateUserToken(user_id, commit_ok) ==
    /\ get_user(users, user_id) # <<>>
    /\ users' = update_user_token_txn(users, user_id, "tok", commit_ok).table
    /\ turn' = Called(user_id, "update_user_token", 0,
                      update_user_token_txn(users, user_id, "tok", commit_ok), commit_ok)
    /\ UNCHANGED <<search_params, favorites, blacklist, matches, photo_likes,
                   auth_states, user_cache, now, issued, loop, gateway, shown>>

\* crud.update_search_params with one age column
UpdateSearchParams(user_id, kwargs, commit_ok) ==
    /\ get_user(users, user_id) # <<>>
    /\ search_params' =
           update_search_params_txn(search_params, user_id, kwargs, commit_ok).table
    /\ turn' = Called(user_id, "update_search_params", 0,
                      update_search_params_txn(search_params, user_id, kwargs, commit_ok),
                      commit_ok)
    /\ UNCHANGED <<users, favorites, blacklist, matches, photo_likes,
                   auth_states, user_cache, now, issued, loop, gateway, shown>>

\* crud.add_to_favorites
\* (a commit fails only when there is something to commit)
AddFavoriteTxn(user_id, c, commit_ok) ==
    /\ get_user(users, user_id) # <<>>
    /\ commit_ok \/ ~remove_from_favorites_ret(favorites, user_id, c)
    /\ favorites' = add_to_favorites_txn(favorites, user_id, c, commit_ok).table
    /\ turn' = Called(user_id, "add_to_favorites", c,
                      add_to_favorites_txn(favorites, user_id, c, commit_ok), commit_ok)
    /\ UNCHANGED <<users, search_params, blacklist, matches, photo_likes,
                   auth_states, user_cache, now, issued, loop, gateway, shown>>

\* handle_message called for a user who has a profile, whatever its state
HandleMessage(user_id) ==
    /\ get_user(users, user_id) # <<>>
    /\ \E text \in {"abc", "settings", "menu"} :
          Handled(handle_message([World EXCEPT !.handled = TRUE], user_id, text,
                                 DefaultEnv, now),
                  user_id, text, DefaultEnv)

\* the repository functions and handle_message called one by one
NextCrud ==
    \/ \E u \in UserIds : CreateUser(u)
    \/ \E u \in UserIds, s \in BotState, ok \in BOOLEAN : SaveUserState(u, s, ok)
    \/ \E u \in UserIds, ok \in BOOLEAN : UpdateUserToken(u, ok)
    \/ \E u \in UserIds, ok \in BOOLEAN :
          \E kwargs \in {[min_age |-> 18], [max_age |-> 99]} :
             UpdateSearchParams(u, kwargs, ok)
    \/ \E u \in UserIds, c \in CandIds \ UserIds, ok \in BOOLEAN : AddFavoriteTxn(u, c, ok)
    \/ \E u \in UserIds : HandleMessage(u)

Spec == Init /\ [][Next]_vars

SpecStore == InitStore /\ [][NextStore]_vars

SpecSearch == Init /\ [][NextSearch]_vars

SpecFault == Init /\ [][NextFault]_vars

SpecLoop == Init /\ [][NextLoop]_vars

SpecCrud == Init /\ [][NextCrud]_vars

\* the time that passes between two calls: the duration of an upstream call
\* and of the code between the calls
Durations == {10, delay}

\* some time passes
Elapse(d) ==
    /\ gateway.clock + d <= MaxClock
    /\ gateway' = [gateway EXCEPT !.clock = @ + d]
    /\ UNCHANGED <<users, search_params, favorites, blacklist, matches, photo_likes,
                   auth_states, user_cache, now, issued, loop, shown, turn>>

\* the gateway changes from g to g1 by one method call
GatewayCall(g1) ==
    /\ gateway.clock <= MaxClock
    /\ gateway' = g1
    /\ UNCHANGED <<users, search_params, favorites, blacklist, matches, photo_likes,
                   auth_states, user_cache, now, issued, loop, shown, turn>>

GetFriends == GatewayCall(get_friends(gateway))

GetGroups == GatewayCall(get_groups(gateway))

GetProfile == GatewayCall(get_profile(gateway))

GetCityId == GatewayCall(get_city_id(gateway))

SearchCall == GatewayCall(search(gateway))

\* the methods of the two clients called in any order, time passing between
NextGateway ==
    \/ \E d \in Durations : Elapse(d)
    \/ GetFriends
    \/ GetGroups
    \/ GetProfile
    \/ GetCityId
    \/ SearchCall

SpecGateway == Init /\ [][NextGateway]_vars

\* the authorization dialogue and the challenge functions, with time passing
NextAuth ==
    \/ \E u \in UserIds : AuthStart(u, TRUE)
    \/ \E u \in UserIds : AuthRedirect(u, RedirectTexts, {"ok", "fail", "other"})
    \/ \E o \in OwnerIds : SaveVerifier(o)
    \/ \E o \in OwnerIds, st \in 1..MaxSaves : GetVerifier(o, st)
    \/ Tick

SpecAuth == Init /\ [][NextAuth]_vars

(***************************************************************************)
(* Properties.  turn describes the message handled last: turn.before is    *)
(* the stored state it found, turn.handled tells that it reached           *)
(* handle_message.                                                         *)
(***************************************************************************)
\* a text handle_message interprets itself: no global command, no redirect URL
PlainText(t) == Lower(t) \notin GlobalCommands /\ ~ContainsCode(t)

InvalidAge(t) == ~(IsDigit(t) /\ IntOf(t) >= 18 /\ IntOf(t) <= 99)

CityOf(sp, user_id) ==
    IF get_search_params(sp, user_id) = <<>> THEN None
    ELSE get_search_params(sp, user_id)[1].city

\* C1: a plain text that is no integer in [18, 99], handled while the stored
\* state is AWAITING_MIN_AGE or AWAITING_MAX_AGE, leaves the stored state and
\* the search parameters as they were.  (Refuted: the state becomes
\* SEARCH_SETTINGS.)
C1_InvalidAgeStays ==
    [][\A u \in UserIds :
          (/\ turn'.user = u /\ turn'.handled
           /\ StoredState(users, u) \in {AWAITING_MIN_AGE, AWAITING_MAX_AGE}
           /\ PlainText(turn'.text) /\ InvalidAge(turn'.text))
          => (/\ StoredState(users', u) = StoredState(users, u)
              /\ search_params' = search_params)]_vars

\* the spellings of the global commands
GlobalTexts == {"menu", "MENU", "nachat", "start"}

\* C2: a global command from an authorized user ends with the stored state
\* MAIN_MENU: in the turn taken, and from each of the ten states when the
\* event loop is applied to the present store with that state written.
C2_GlobalCommandToMainMenu ==
    \A u \in UserIds :
        /\ (turn.user = u /\ turn.handled /\ turn.text \in GlobalTexts)
               => StoredState(users, u) = MAIN_MENU
        /\ Authorized(u) =>
               \A s \in BotState, t \in GlobalTexts :
                   StoredState(run(set_state(World, u, s), u, t, DefaultEnv, now).users, u)
                       = MAIN_MENU

\* C2 happens: 'MENU' sent while a city was awaited
C2_Witness ==
    /\ turn.handled /\ turn.text = "MENU" /\ turn.before = AWAITING_CITY
    /\ StoredState(users, turn.user) = MAIN_MENU

\* C3 as amended: while the stored state is AWAITING_CITY, a text that is
\* neither a global command nor an authorization text is stored verbatim as
\* the city of the search parameters and the state becomes SEARCH_SETTINGS.
C3_CityCaptured ==
    \A u \in UserIds :
        (/\ turn.user = u /\ turn.handled /\ turn.before = AWAITING_CITY
         /\ PlainText(turn.text))
        => (/\ StoredState(users, u) = SEARCH_SETTINGS
            /\ CityOf(search_params, u) = turn.text)

\* C3 happens: the label of the search button is taken as a city
C3_Witness ==
    /\ turn.handled /\ turn.before = AWAITING_CITY /\ turn.text = "find_pair"
    /\ StoredState(users, turn.user) = SEARCH_SETTINGS
    /\ CityOf(search_params, turn.user) = "find_pair"

\* C3 as stated: while the stored state is AWAITING_CITY every message,
\* whatever its text, is stored as the city and leads to SEARCH_SETTINGS.
C3_AnyTextCaptured ==
    \A u \in UserIds :
        (turn.user = u /\ turn.before = AWAITING_CITY)
        => (/\ StoredState(users, u) = SEARCH_SETTINGS
            /\ CityOf(search_params, u) = turn.text)

\* C1 is refuted by '17' sent while the minimal age is awaited
C1_Refuted ==
    /\ turn.handled /\ turn.before = AWAITING_MIN_AGE /\ turn.text = "17"
    /\ StoredState(users, turn.user) = SEARCH_SETTINGS

\* the faults that make start_search fail with an error other than flood control
FatalFaults == {"db_cache_query", "send_candidate"}

\* C4: when start_search ends in its except branch after an error other than
\* flood control, the stored state is the one the turn found.  (Refuted: the
\* state stays SEARCHING, or VIEWING_CANDIDATE when showing failed.)
C4_FailedSearchKeepsState ==
    \A u \in UserIds :
        (turn.user = u /\ turn.failed /\ turn.fault \in FatalFaults)
        => StoredState(users, u) = turn.before

\* C4 is refuted by a cache query that raises after 'find_pair'
C4_Refuted ==
    /\ turn.failed /\ turn.fault = "db_cache_query" /\ turn.before = MAIN_MENU
    /\ StoredState(users, turn.user) = SEARCHING

\* C5: a turn in which get_next_candidate answered ends in VIEWING_CANDIDATE
\* with the candidate answered as the current candidate, or in MAIN_MENU when
\* the answer was None.
C5_SearchOutcome ==
    \A u \in UserIds :
        (turn.user = u /\ turn.gnc > 0 /\ ~turn.failed)
        => IF turn.ret # <<>>
           THEN /\ StoredState(users, u) = VIEWING_CANDIDATE
                /\ user_cache[u].current_candidate = turn.ret
           ELSE StoredState(users, u) = MAIN_MENU

\* C5 happens: a candidate was found for 'find_pair'
C5_Witness ==
    /\ turn.text = "find_pair" /\ turn.gnc = 1 /\ turn.searches > 0
    /\ turn.ret # <<>>
    /\ StoredState(users, turn.user) = VIEWING_CANDIDATE
    /\ user_cache[turn.user].current_candidate = turn.ret

\* the rows of matches that belong to user_id
RowsOf(ms, user_id) == {i \in DOMAIN ms : ms[i].user_id = user_id}

\* C6: with a cache row of the owner in the store, get_next_candidate answers
\* a row of the owner with that row's score, no row of the owner has a higher
\* score, and no search is made, whatever upstream would answer.
C6_CacheFirst ==
    \A u \in UserIds :
        RowsOf(matches, u) # {} =>
            \A pick \in BestCached(matches, u), result \in ShortResults :
                LET g == get_next_candidate(users, search_params, favorites, blacklist,
                             matches, u,
                             [DefaultEnv EXCEPT !.pick = pick,
                                                !.upstream.result = result], now)
                IN  /\ g.ret # <<>>
                    /\ \E i \in RowsOf(matches, u) :
                          /\ matches[i].matched_user_id = g.ret[1].id
                          /\ matches[i].match_score = g.ret[1].match_score
                    /\ \A j \in RowsOf(matches, u) :
                          matches[j].match_score <= g.ret[1].match_score
                    /\ g.searches = 0
                    /\ g.matches = matches

\* C6 happens: a turn served the better of two cached rows without a search
C6_Witness ==
    /\ turn.gnc = 1 /\ turn.searches = 0 /\ turn.ret # <<>>
    /\ Len(matches) = 2
    /\ matches[1].match_score > matches[2].match_score
    /\ turn.ret[1].id = matches[1].matched_user_id
    /\ turn.ret[1].match_score = matches[1].match_score

\* C7: no step removes the cache row of a pair, and a turn of an owner who
\* has a cache row makes no search.
C7_CacheRowsStay ==
    [][/\ \A i \in DOMAIN matches : \E j \in DOMAIN matches' :
             /\ matches'[j].user_id = matches[i].user_id
             /\ matches'[j].matched_user_id = matches[i].matched_user_id
       /\ \A u \in UserIds :
             (RowsOf(matches, u) # {} /\ turn'.user = u) => turn'.searches = 0]_vars

\* C7 happens: the candidate just blacklisted is served again from the cache
C7_Witness ==
    /\ turn.text = "to_blacklist" /\ turn.gnc = 1 /\ turn.searches = 0
    /\ turn.ret # <<>>
    /\ is_in_blacklist(blacklist, turn.user, turn.ret[1].id)
    /\ RowsOf(matches, turn.user) # {}

\* the ids of the list s of profiles
IdsOf(s) == {s[i].id : i \in DOMAIN s}

FavoriteIds(fav, user_id) ==
    {fav[i].favorite_user_id : i \in {k \in DOMAIN fav : fav[k].user_id = user_id}}

\* C8: the list find_candidates returns holds neither the owner nor a profile
\* the owner has blacklisted or has among the favorites.
C8_FoundExcludes ==
    \A u \in UserIds :
        (turn.user = u /\ turn.text = "find_candidates")
        => \A c \in IdsOf(turn.found) :
              /\ c # u
              /\ ~is_in_blacklist(blacklist, u, c)
              /\ c \notin FavoriteIds(favorites, u)

\* C8 happens: upstream answered a blacklisted and another profile, one is kept
C8_Witness ==
    /\ turn.text = "find_candidates" /\ turn.found # <<>>
    /\ \E c \in IdsOf(turn.raw) : is_in_blacklist(blacklist, turn.user, c)
    /\ favorites # <<>>

\* the turn sent the message tag
Sent(tag) == \E i \in DOMAIN turn.out : turn.out[i] = tag

OnePerPair(rows, key(_)) ==
    \A i, j \in DOMAIN rows :
        (rows[i].user_id = rows[j].user_id /\ key(rows[i]) = key(rows[j])) => i = j

\* C10: favorites and blacklist hold at most one row per pair, and adding a
\* pair that is present answers the row that is there and leaves the table
\* as it is.
C10_OneRowPerPair ==
    [][/\ OnePerPair(favorites', LAMBDA r : r.favorite_user_id)
       /\ OnePerPair(blacklist', LAMBDA r : r.blocked_user_id)
       /\ (turn'.text = "add_to_favorites"
            /\ turn'.arg \in FavoriteIds(favorites, turn'.user))
          => (/\ favorites' = favorites
              /\ \E i \in DOMAIN favorites :
                    /\ turn'.ret = <<favorites[i]>>
                    /\ favorites[i].favorite_user_id = turn'.arg)
       /\ (turn'.text = "add_to_blacklist"
            /\ is_in_blacklist(blacklist, turn'.user, turn'.arg))
          => (/\ blacklist' = blacklist
              /\ \E i \in DOMAIN blacklist :
                    /\ turn'.ret = <<blacklist[i]>>
                    /\ blacklist[i].blocked_user_id = turn'.arg)]_vars

\* C10 happens: a pair was added again after another pair had been added
C10_Witness ==
    /\ turn.text = "add_to_favorites" /\ Len(favorites) = 2
    /\ turn.ret = <<favorites[1]>>
    /\ favorites[1].favorite_user_id = turn.arg

\* C11: the state column of every profile holds one of the ten BotState
\* values, also right after create_user.  (Refuted: create_user writes the
\* literal 'main_menu'.)
C11_StateAlwaysNamed ==
    \A i \in DOMAIN users : users[i].state \in BotState

\* C11 fails: create_user has just returned and the column holds the literal
C11_Refuted ==
    /\ turn.text = "create_user"
    /\ StoredState(users, turn.user) = "main_menu"

\* C12: a profile without access token is in AUTH_IN_PROGRESS.  (Refuted: the
\* profile created by 'авторизоваться' is put in MAIN_MENU at once.)
C12_NoTokenInAuthInProgress ==
    \A i \in DOMAIN users :
        users[i].access_token = None => users[i].state = AUTH_IN_PROGRESS

\* C12 fails: the turn created the profile, no token is stored, MAIN_MENU
C12_Refuted ==
    /\ turn.text = "avtorizovatsya" /\ turn.before = None
    /\ get_user(users, turn.user) # <<>>
    /\ get_user(users, turn.user)[1].access_token = None
    /\ StoredState(users, turn.user) = MAIN_MENU

C14_UnknownStateKept ==
    [][\A u \in UserIds :
          (/\ turn'.user = u /\ turn'.handled /\ PlainText(turn'.text)
           /\ get_user(users, u) # <<>> /\ get_user_state(users, u) = None)
          => StoredState(users', u) = StoredState(users, u)]_vars

\* C14 fails: 'abc' found the literal of create_user and left MAIN_MENU
C14_Refuted ==
    /\ turn.handled /\ turn.text = "abc" /\ turn.before = "main_menu"
    /\ StoredState(users, turn.user) = MAIN_MENU

\* the states that interpret a text against a table of labels, and the tables
SteadyStates == {MAIN_MENU, VIEWING_CANDIDATE, FAVORITES, SEARCH_SETTINGS,
                 PRIORITY_SETTINGS}

Labels(state) ==
    CASE state = MAIN_MENU -> {"find_pair", "favorites", "settings", "blacklist", "help"}
      [] state = VIEWING_CANDIDATE ->
             {"like", "unlike", "to_favorites", "to_blacklist", "next", "to_menu"}
      [] state = FAVORITES -> {"view", "delete", "back"}
      [] state = SEARCH_SETTINGS ->
             {"age_from", "age_to", "city", "gender", "priorities", "done", "back"}
      [] state = PRIORITY_SETTINGS ->
             {"age_first", "music_first", "books_first", "friends_first", "back"}
      [] OTHER -> {}

\* texts that are no label of the state, no global command, no authorization
\* text and, in FAVORITES, no numeral
Unrecognized(state) ==
    {t \in UNION {Labels(s) : s \in SteadyStates} \cup {"abc", "Kazan", "25"} :
        t \notin Labels(state) /\ ~(state = FAVORITES /\ IsDigit(t))}

\* the replies that only tell the user to use the buttons
HintTags == {"hint_menu", "hint_candidate", "hint_favorites", "hint_settings",
             "bad_priority"}

\* the event loop applied to the present store with state s written answers
\* the text t with one hint and changes nothing else, whichever cache row the
\* store would return and whether or not the user's token is still valid
HintOnly(u, s, t) ==
    \A pick \in (IF BestCached(matches, u) # {} THEN BestCached(matches, u) ELSE {0}),
       token_valid \in BOOLEAN :
    LET w == run(set_state(World, u, s), u, t,
                 [DefaultEnv EXCEPT !.pick = pick, !.token_valid = token_valid], now)
    IN  /\ w.users = save_user_state(users, u, s)
        /\ w.favorites = favorites /\ w.blacklist = blacklist
        /\ w.search_params = search_params /\ w.matches = matches
        /\ Len(w.out) = 1 /\ w.out[1] \in HintTags /\ w.exc = NoExc

\* C15 as amended: in each steady state an unrecognized text is answered with
\* a hint only and state, favorites, blacklist, search parameters and cache
\* rows stay; in VIEWING_CANDIDATE this holds while the bot holds the current
\* candidate in memory.
C15_UnrecognizedHint ==
    \A u \in UserIds :
        Authorized(u) =>
            \A s \in SteadyStates :
                (s = VIEWING_CANDIDATE => user_cache[u].current_candidate # <<>>)
                => \A t \in Unrecognized(s) : HintOnly(u, s, t)

\* C15 happens: the search button was sent while a candidate was shown
C15_Witness ==
    /\ turn.handled /\ turn.before = VIEWING_CANDIDATE /\ turn.text = "find_pair"
    /\ turn.out = <<"hint_candidate">>
    /\ StoredState(users, turn.user) = VIEWING_CANDIDATE
    /\ user_cache[turn.user].current_candidate # <<>>

\* C15 as written: the same in the state the user is in, whatever the bot holds
\* in memory.  (Refuted: in VIEWING_CANDIDATE after a restart any text starts a
\* search.)
C15_AnyUnrecognizedHint ==
    \A u \in UserIds :
        (Authorized(u) /\ get_user_state(users, u) \in SteadyStates)
        => \A t \in Unrecognized(get_user_state(users, u)) :
              HintOnly(u, get_user_state(users, u), t)

\* C16: an integer n in [18, 99] handled while the stored state is
\* AWAITING_MIN_AGE (AWAITING_MAX_AGE) sets min_age (max_age) of the user's
\* search parameters to n, leaves the other columns as they were and ends with
\* the stored state SEARCH_SETTINGS.
C16_ValidAgeStored ==
    [][\A u \in UserIds :
          (/\ turn'.user = u /\ turn'.handled
           /\ StoredState(users, u) \in {AWAITING_MIN_AGE, AWAITING_MAX_AGE}
           /\ PlainText(turn'.text) /\ ~InvalidAge(turn'.text))
          => (/\ get_search_params(search_params, u) # <<>>
              /\ get_search_params(search_params', u) =
                    <<IF StoredState(users, u) = AWAITING_MIN_AGE
                      THEN [get_search_params(search_params, u)[1]
                               EXCEPT !.min_age = IntOf(turn'.text)]
                      ELSE [get_search_params(search_params, u)[1]
                               EXCEPT !.max_age = IntOf(turn'.text)]>>
              /\ Len(search_params') = Len(search_params)
              /\ StoredState(users', u) = SEARCH_SETTINGS)]_vars

\* C16 happens: '25' was entered as the minimal age over the defaults 20..30
C16_Witness ==
    /\ turn.handled /\ turn.before = AWAITING_MIN_AGE /\ turn.text = "25"
    /\ get_search_params(search_params, turn.user) # <<>>
    /\ get_search_params(search_params, turn.user)[1].min_age = 25
    /\ get_search_params(search_params, turn.user)[1].max_age = 30
    /\ StoredState(users, turn.user) = SEARCH_SETTINGS

\* C17: the stored search parameters have min_age <= max_age.  (Refuted: an
\* age is validated against [18, 99] only, never against the other bound.)
C17_MinNotAboveMax ==
    \A i \in DOMAIN search_params : search_params[i].min_age <= search_params[i].max_age

\* C17 fails: the maximal age just entered is below the minimal age stored
C17_Refuted ==
    /\ turn.handled /\ turn.before = AWAITING_MAX_AGE
    /\ \E i \in DOMAIN search_params :
          /\ search_params[i].max_age = IntOf(turn.text)
          /\ search_params[i].min_age > search_params[i].max_age

\* C18: the event loop of run() is listening in every reachable state.
\* (Refuted: _init_group_session, called from the except block after a
\* connection failure, raises out of run() when it fails itself.)
C18_LoopKeepsListening == loop = "listening"

\* C18 fails: the reply could not be sent, the session could not be renewed
C18_Refuted ==
    /\ loop = "stopped"
    /\ turn.exc = ConnectionError /\ turn.fault = "send_connection"

\* C19: a turn whose exception reached the except block of run() has sent the
\* user an apology.  (Refuted: the except block logs and sends nothing.)
C19_FailureAnswered == turn.exc # NoExc => Sent("apology")

\* C19 fails: the button of a handler that does not exist got no reply
C19_Refuted ==
    /\ turn.handled /\ turn.text = "gender" /\ turn.before = SEARCH_SETTINGS
    /\ turn.exc = AttributeError /\ turn.out = <<>>

\* C20: a repository call whose commit fails raises nothing, returns False or
\* None and leaves the tables as they were.  (Refuted: save_user_state has no
\* try block.)
C20_FailedWriteReported ==
    [][turn'.fault = "commit"
          => (/\ turn'.exc = NoExc
              /\ turn'.ret[1] \in {"False", None}
              /\ users' = users /\ search_params' = search_params
              /\ favorites' = favorites)]_vars

\* C20 fails: the exception of the commit left save_user_state
C20_Refuted ==
    /\ turn.text = "save_user_state" /\ turn.fault = "commit"
    /\ turn.exc = OperationalError

\* the favorites list the bot keeps in memory since it was shown last, <<>>
\* when it keeps none
ShownFavorites(u) ==
    IF user_cache[u].favorites = <<>> THEN <<>> ELSE user_cache[u].favorites[1]

\* C21 as amended: while the stored state is FAVORITES and the bot keeps the
\* list shown last, a numeral outside 1..length of that list is answered with
\* the error reply and the stored state and the favorites stay.
C21_BadIndexRejected ==
    [][\A u \in UserIds :
          (/\ turn'.user = u /\ turn'.handled
           /\ StoredState(users, u) = FAVORITES
           /\ IsDigit(turn'.text)
           /\ user_cache[u].favorites # <<>>
           /\ IntOf(turn'.text) \notin 1..Len(ShownFavorites(u)))
          => (/\ turn'.out = <<"bad_favorite_number">>
              /\ users' = users /\ favorites' = favorites
              /\ user_cache' = user_cache)]_vars

\* C21 happens: '2' was sent while the list shown had one entry
C21_Witness ==
    /\ turn.handled /\ turn.before = FAVORITES /\ turn.text = "2"
    /\ Len(ShownFavorites(turn.user)) = 1
    /\ turn.out = <<"bad_favorite_number">>
    /\ Len(favorites) = 1

\* C21 as written: '0', which is outside every list, is answered with the
\* error reply whenever the stored state is FAVORITES.  (Refuted: after a
\* restart the bot keeps no list and answers with the list itself.)
C21_ZeroRejected ==
    [][\A u \in UserIds :
          (/\ turn'.user = u /\ turn'.handled
           /\ StoredState(users, u) = FAVORITES /\ turn'.text = "0")
          => (/\ turn'.out = <<"bad_favorite_number">>
              /\ users' = users /\ favorites' = favorites)]_vars

\* the rows of the cache that belong to the pair (u, c)
PairRows(ms, u, c) == {i \in DOMAIN ms : ms[i].user_id = u /\ ms[i].matched_user_id = c}

\* C22: the cache never holds two rows for one (owner, candidate) pair, and a
\* run of find_candidates keeps every row in its place, gives the row of each
\* candidate it returns that candidate's new score and photos, and adds a
\* row only for a candidate that had none.
C22_OneRowPerPair ==
    [][/\ \A u \in UserIds, c \in CandIds : Cardinality(PairRows(matches', u, c)) <= 1
       /\ turn'.text = "find_candidates" =>
            /\ Len(matches') >= Len(matches)
            /\ \A i \in DOMAIN matches :
                  /\ matches'[i].user_id = matches[i].user_id
                  /\ matches'[i].matched_user_id = matches[i].matched_user_id
                  /\ (\A k \in DOMAIN turn'.found :
                         turn'.found[k].id # matches[i].matched_user_id)
                     => matches'[i] = matches[i]
            /\ \A k \in DOMAIN turn'.found :
                  \E i \in DOMAIN matches' :
                      /\ matches'[i].user_id = turn'.user
                      /\ matches'[i].matched_user_id = turn'.found[k].id
                      /\ matches'[i].match_score = turn'.found[k].match_score
                      /\ matches'[i].photos = turn'.found[k].photos
            /\ Len(matches') = Len(matches)
                 + Cardinality({k \in DOMAIN turn'.found :
                       PairRows(matches, turn'.user, turn'.found[k].id) = {}})]_vars

\* C22 happens: find_candidates was run while profile 3 had a row and has
\* returned profile 3 with the score of two common friends and a new photo;
\* the row holds both and is still the only one
C22_Witness ==
    /\ turn.text = "find_candidates" /\ turn.arg = 1 /\ Len(matches) = 1
    /\ Len(turn.found) = 1 /\ turn.found[1].id = 3
    /\ matches[1].matched_user_id = 3
    /\ matches[1].match_score = 32
    /\ matches[1].photos = <<[owner_id |-> 3, id |-> 2]>>

\* C26: when the owner has no profile or no search parameters,
\* find_candidates returns the empty list, calls the search not once and
\* writes no row.
C26_NothingWithoutProfile ==
    [][(/\ turn'.text = "find_candidates"
        /\ \/ get_user(users, turn'.user) = <<>>
           \/ get_search_params(search_params, turn'.user) = <<>>)
       => (/\ turn'.found = <<>> /\ turn'.searches = 0
           /\ matches' = matches /\ users' = users
           /\ search_params' = search_params)]_vars

\* C26 happens: find_candidates was called for a profile without search
\* parameters while the search would have returned a profile with friends in
\* common
C26_Witness ==
    /\ turn.text = "find_candidates" /\ turn.searches = 0 /\ turn.found = <<>>
    /\ users # <<>> /\ search_params = <<>> /\ matches = <<>>
    /\ Len(turn.raw) = 1 /\ turn.raw[1].friends = 2

\* the challenge rows of one owner
OwnerRows(as, o) == SelectSeq(as, LAMBDA r : r.user_id = o)

\* the turns and calls that save a challenge
SavesChallenge(t) == t.text \in {"save_verifier", "avtorizovatsya"}

\* C23: no owner ever has two challenge rows; a save leaves its owner with
\* exactly one row, the one just saved, and the rows of every other owner
\* as they were; nothing else writes the table.
C23_OneChallengePerOwner ==
    [][/\ \A o \in OwnerIds : Len(OwnerRows(auth_states', o)) <= 1
       /\ SavesChallenge(turn') =>
            /\ Len(OwnerRows(auth_states', turn'.user)) = 1
            /\ OwnerRows(auth_states', turn'.user)[1].state = issued'
            /\ issued' = issued + 1
            /\ \A o \in OwnerIds \ {turn'.user} :
                  OwnerRows(auth_states', o) = OwnerRows(auth_states, o)
       /\ ~SavesChallenge(turn') => auth_states' = auth_states]_vars

\* C23 happens: owner 1 has saved a third challenge over an earlier one of
\* its own while owner 2 holds the first
C23_Witness ==
    /\ turn.text = "save_verifier" /\ turn.user = 1 /\ turn.arg = 3
    /\ Len(auth_states) = 2
    /\ OwnerRows(auth_states, 2) # <<>> /\ OwnerRows(auth_states, 2)[1].state = 1
    /\ OwnerRows(auth_states, 1) # <<>> /\ OwnerRows(auth_states, 1)[1].state = 3

\* a row of owner o with state token st that has not expired at time t
Live(as, o, st, t) ==
    \E i \in DOMAIN as : as[i].user_id = o /\ as[i].state = st /\ as[i].expires_at > t

\* C24: get_verifier returns a verifier exactly when the owner has a row
\* with that state token whose expiry, ten minutes after its creation, is
\* still ahead; otherwise it returns None, the redirect turn is answered
\* with the expiry notice, no token exchange is made and the profile stays;
\* a lookup deletes no row.
C24_VerifierOnlyWhileLive ==
    [][/\ turn'.text = "get_verifier" =>
            /\ (turn'.ret # <<None>>) = Live(auth_states, turn'.user, turn'.arg, now)
            /\ auth_states' = auth_states
       /\ turn'.text \in {"url_st1", "url_st2", "url_st3"} =>
            /\ turn'.lookups = 1
            /\ (turn'.exchanges = 1)
                  = Live(auth_states, turn'.user, QueryOf(turn'.text).state, now)
            /\ turn'.exchanges = 0 =>
                  (turn'.out = <<"session_expired">> /\ users' = users)
            /\ auth_states' = auth_states
       /\ SavesChallenge(turn') =>
            OwnerRows(auth_states', turn'.user)[1].expires_at = now + VerifierTTL]_vars

\* C24 happens: the redirect carries the state token of the owner's row, the
\* row has expired, the turn is answered with the expiry notice without a
\* token exchange and the row is still there
C24_Witness ==
    /\ turn.text = "url_st1" /\ turn.user = 1
    /\ turn.out = <<"session_expired">> /\ turn.exchanges = 0
    /\ \E i \in DOMAIN auth_states :
          /\ auth_states[i].user_id = 1 /\ auth_states[i].state = 1
          /\ auth_states[i].expires_at <= now

\* C25: a redirect without code or without state is answered with the
\* validation failure; no verifier is looked up, no token exchanged, and
\* the profile (token and state) and the challenges stay.
C25_BadRedirectRejected ==
    [][turn'.text \in {"url_nostate", "url_nocode"} =>
          /\ turn'.out = <<"bad_auth_params">>
          /\ turn'.lookups = 0 /\ turn'.exchanges = 0
          /\ users' = users /\ auth_states' = auth_states]_vars

\* C25 happens: the redirect has an empty code and the state token of a live
\* row of the sender
C25_Witness ==
    /\ turn.text = "url_nocode" /\ turn.user = 1
    /\ turn.out = <<"bad_auth_params">> /\ turn.lookups = 0
    /\ Live(auth_states, 1, 1, now)
    /\ ~Authorized(1)

\* the ids of a list of profiles or candidates, in order
IdSeq(list) == [k \in DOMAIN list |-> list[k].id]

\* the owner and the search result of the scoring example: owner of age 30
\* in Moskva, A (profile 2) then B (profile 3) returned, no friends or groups
\* in common, nobody blacklisted or in the favorites
ScoringExample ==
    /\ turn.text = "find_candidates"
    /\ get_user(users, turn.user) # <<>>
    /\ get_user(users, turn.user)[1].age = 30
    /\ get_user(users, turn.user)[1].city = "Moskva"
    /\ get_search_params(search_params, turn.user) # <<>>
    /\ favorites = <<>> /\ blacklist = <<>>
    /\ IdSeq(turn.raw) = <<2, 3>>
    /\ \A k \in DOMAIN turn.raw :
          /\ turn.raw[k].friends = 0 /\ turn.raw[k].groups = 0
          /\ turn.raw[k].age = ProfileAge(turn.raw[k].id)
          /\ turn.raw[k].city = ProfileCity(turn.raw[k].id)

\* C28 as written: in the scoring example find_candidates returns A then B.
\* (Refuted: it returns the empty list.)
C28_ExampleOrdering == ScoringExample => IdSeq(turn.found) = <<2, 3>>

\* C28 is refuted: the scoring example ends with the empty list
C28_Refuted == ScoringExample /\ turn.found = <<>> /\ turn.searches > 0

\* C29 as written: a run of find_candidates in which no search call fails
\* calls the search once.  (Refuted: it calls it twice.)
C29_SearchOnceUnlessFlood ==
    (turn.text = "find_candidates" /\ turn.searches > 0) => turn.searches = 1

\* C29 is refuted: the search has answered with a profile and was called twice
C29_Refuted ==
    /\ turn.text = "find_candidates" /\ turn.raw # <<>> /\ turn.found # <<>>
    /\ turn.searches = 2

\* the place of profile id in a search result
PlaceIn(raw, id) == FirstIdx({k \in DOMAIN raw : raw[k].id = id})

\* C30: the list find_candidates returns is made of profiles the search
\* returned, each once and with a score above 0, in non-increasing order of
\* score and, among equal scores, in the order of the search result; and
\* get_next_candidate, when the owner has no cache row, returns the first
\* element of that list, whose score is the highest, or None when the list
\* is empty.
C30_PositiveSortedStable ==
    /\ turn.text = "find_candidates" =>
          /\ \A k \in DOMAIN turn.found :
                /\ turn.found[k].match_score > 0
                /\ PlaceIn(turn.raw, turn.found[k].id) # 0
          /\ \A k, l \in DOMAIN turn.found :
                k < l =>
                  /\ turn.found[k].match_score >= turn.found[l].match_score
                  /\ turn.found[k].match_score = turn.found[l].match_score
                       => PlaceIn(turn.raw, turn.found[k].id)
                            < PlaceIn(turn.raw, turn.found[l].id)
    /\ \A u \in UserIds :
          BestCached(matches, u) = {} =>
            \A result \in SearchResults :
              LET env == [DefaultEnv EXCEPT !.upstream.result = result]
                  f == find_candidates(users, search_params, favorites, blacklist,
                                       matches, u, env.upstream, now)
                  g == get_next_candidate(users, search_params, favorites, blacklist,
                                          matches, u, env, now)
              IN  /\ g.ret = IF f.list = <<>> THEN <<>> ELSE <<f.list[1]>>
                  /\ \A k \in DOMAIN f.list :
                        g.ret[1].match_score >= f.list[k].match_score

\* C30 happens: the search returned profile 3 before profile 2, two friends
\* in common with each, and find_candidates returned them in that order
C30_Witness ==
    /\ turn.text = "find_candidates"
    /\ IdSeq(turn.raw) = <<3, 2>> /\ IdSeq(turn.found) = <<3, 2>>
    /\ turn.found[1].match_score = 32 /\ turn.found[2].match_score = 32

\* C27 as written: two consecutive upstream calls through the same client
\* are at least delay apart.  (Refuted by get_groups, get_profile and
\* get_city_id, which do not wait.)
C27_MinSpacing == gateway.gap = -1 \/ gateway.gap >= delay

\* C27 is refuted: groups.get was called a tenth of a second after the
\* previous call through the same client
C27_Refuted ==
    /\ gateway.method = "groups.get" /\ gateway.gap = 10
    /\ gateway.called["VKUserData"] # -1

\* C31 as written: in a turn that reaches the search, the criteria passed to
\* it are the owner's stored parameters: the age band, the has-photo flag and
\* the city filter.  (Refuted for the city: the city of the profile is passed.)
C31_CriteriaFromParams ==
    [][(turn'.handled /\ turn'.searches > 0) =>
          LET f == find_candidates(users', search_params', favorites', blacklist',
                                   matches, turn'.user,
                                   [result |-> turn'.raw, search_exc |-> NoExc], now)
              params == get_search_params(search_params', turn'.user)[1]
          IN  /\ f.criteria # <<>>
              /\ f.criteria[1].min_age = params.min_age
              /\ f.criteria[1].max_age = params.max_age
              /\ f.criteria[1].has_photo = params.has_photo
              /\ f.criteria[1].city = params.city]_vars

\* C31 is refuted: the search was made after the city filter had been set to
\* another text than the city of the profile
C31_Refuted ==
    /\ turn.handled /\ turn.searches > 0
    /\ get_search_params(search_params, turn.user) # <<>>
    /\ get_search_params(search_params, turn.user)[1].city = "abc"
    /\ get_user(users, turn.user)[1].city = "Moskva"

\* the ids of the stored favorites of u, in the order get_favorites returns
StoredFavorites(fav, u) ==
    [i \in DOMAIN get_favorites(fav, u) |-> get_favorites(fav, u)[i].favorite_user_id]

\* C32: while the stored state is FAVORITES and the bot keeps the list shown
\* last, that list is the list of the stored favorites; and a numeral i
\* within the list removes from the stored favorites the entry at place i of
\* the list and nothing else.
C32_IndexRemovesShown ==
    [][\A u \in UserIds :
        /\ (StoredState(users', u) = FAVORITES /\ user_cache'[u].favorites # <<>>)
              => user_cache'[u].favorites[1] = StoredFavorites(favorites', u)
        /\ (/\ turn'.user = u /\ turn'.handled
            /\ StoredState(users, u) = FAVORITES
            /\ IsDigit(turn'.text)
            /\ user_cache[u].favorites # <<>>
            /\ IntOf(turn'.text) \in 1..Len(ShownFavorites(u)))
           => /\ ~(\E i \in DOMAIN favorites' :
                      /\ favorites'[i].user_id = u
                      /\ favorites'[i].favorite_user_id
                           = ShownFavorites(u)[IntOf(turn'.text)])
              /\ Len(favorites') = Len(favorites) - 1
              /\ \A i \in DOMAIN favorites :
                    favorites[i].favorite_user_id # ShownFavorites(u)[IntOf(turn'.text)]
                    => \E j \in DOMAIN favorites' : favorites'[j] = favorites[i]]_vars

\* C32 happens: '2' was sent while two favorites were listed, the second is
\* removed and the first is the list shown now
C32_Witness ==
    /\ turn.handled /\ turn.before = FAVORITES /\ turn.text = "2"
    /\ turn.out = <<"favorite_removed", "favorites_list">>
    /\ Len(favorites) = 1
    /\ ShownFavorites(turn.user) = StoredFavorites(favorites, turn.user)

\* C33 as written: a candidate card sent in a turn is never the card of a
\* profile its receiver has blacklisted.  (Refuted: the card sent right after
\* the blacklisting is the card of the profile just blacklisted.)
C33_BlacklistedNeverShown ==
    \A u \in UserIds :
        (turn.user = u /\ turn.handled /\ Sent("candidate")
         /\ user_cache[u].current_candidate # <<>>)
        => ~is_in_blacklist(blacklist, u, user_cache[u].current_candidate[1].id)

\* C33 is refuted: the turn that blacklisted the candidate shown has sent the
\* card of the same candidate again
C33_Refuted ==
    /\ turn.handled /\ turn.text = "to_blacklist" /\ turn.before = VIEWING_CANDIDATE
    /\ turn.out = <<"added_to_blacklist", "candidate">>
    /\ turn.ret # <<>>
    /\ is_in_blacklist(blacklist, turn.user, turn.ret[1].id)
    /\ user_cache[turn.user].current_candidate = turn.ret

\* C34 as written, for the two states it names: the priorities label sent in
\* SEARCH_SETTINGS leaves the stored state PRIORITY_SETTINGS, and starting the
\* authorization leaves it AUTH_IN_PROGRESS.  (Refuted for both.)
C34_NamedStatesEntered ==
    [][\A u \in UserIds :
        /\ (turn'.user = u /\ turn'.handled /\ turn'.text = "priorities"
            /\ StoredState(users, u) = SEARCH_SETTINGS)
           => StoredState(users', u) = PRIORITY_SETTINGS
        /\ (turn'.user = u /\ turn'.text = "avtorizovatsya")
           => StoredState(users', u) = AUTH_IN_PROGRESS]_vars

\* C34 is refuted: the priorities label was sent in SEARCH_SETTINGS, the turn
\* has raised and the stored state is not PRIORITY_SETTINGS
C34_Refuted ==
    /\ turn.handled /\ turn.text = "priorities" /\ turn.before = SEARCH_SETTINGS
    /\ turn.exc = AttributeError
    /\ StoredState(users, turn.user) = SEARCH_SETTINGS

\* C35 as written: a label of the table of the stored state is handled
\* without an exception, and the view, delete, gender and priorities labels
\* are answered.  (Refuted: these four call methods that do not exist.)
C35_LabelsHandled ==
    (turn.handled /\ turn.text \in Labels(turn.before))
    => /\ turn.exc = NoExc
       /\ turn.text \in {"view", "delete", "gender", "priorities"} => turn.out # <<>>

\* C35 is refuted: the view label sent in FAVORITES has raised AttributeError,
\* nothing was sent and the state is as before
C35_Refuted ==
    /\ turn.handled /\ turn.text = "view" /\ turn.before = FAVORITES
    /\ turn.exc = AttributeError /\ turn.out = <<>>
    /\ StoredState(users, turn.user) = FAVORITES

\* C36 as written: no turn of handle_message ends with SEARCHING as the stored
\* state of the user who wrote.  (Refuted: start_search saves SEARCHING first
\* and its exit for a missing or invalid token saves nothing after it.)
C36_SearchingIsTransient ==
    \A u \in UserIds :
        (turn.handled /\ turn.user = u) => StoredState(users, u) # SEARCHING

\* C36 is refuted: 'find_pair' with a token that validate_token rejects was
\* answered with the request to authorize again and the state is SEARCHING
C36_Refuted ==
    /\ turn.handled /\ turn.text = "find_pair" /\ turn.before = MAIN_MENU
    /\ turn.out = <<"reauthorize">> /\ ~turn.failed /\ turn.exc = NoExc
    /\ StoredState(users, turn.user) = SEARCHING

\* the texts of the four candidate actions
CandidateActions == {"like", "unlike", "to_favorites", "to_blacklist"}

\* the action named by text has been applied for user u to candidate id, and
\* to nothing else
AppliedTo(u, text, id) ==
    CASE text = "to_favorites" ->
             /\ favorites' = add_to_favorites(favorites, u, id)
             /\ blacklist' = blacklist /\ photo_likes' = photo_likes
      [] text = "to_blacklist" ->
             /\ blacklist' = add_to_blacklist(blacklist, u, id)
             /\ favorites' = favorites /\ photo_likes' = photo_likes
      [] text = "like" ->
             /\ \A r \in SeqRange(photo_likes') \ SeqRange(photo_likes) :
                    r.user_id = u /\ r.photo_owner_id = id
             /\ SeqRange(photo_likes) \subseteq SeqRange(photo_likes')
             /\ favorites' = favorites /\ blacklist' = blacklist
      [] OTHER ->
             /\ \A r \in SeqRange(photo_likes) \ SeqRange(photo_likes') :
                    r.user_id = u /\ r.photo_owner_id = id
             /\ SeqRange(photo_likes') \subseteq SeqRange(photo_likes)
             /\ favorites' = favorites /\ blacklist' = blacklist

\* C37 as written: a candidate action sent in VIEWING_CANDIDATE is applied to
\* the candidate last sent to the user by show_candidate; with no current
\* candidate in memory nothing is applied and start_search runs.  (Refuted:
\* start_search caches the candidate before show_candidate sends it, and the
\* cached one stays current when the send raises.)
C37_ActsOnShown ==
    [][\A u \in UserIds :
          (/\ turn'.handled /\ turn'.user = u /\ turn'.text \in CandidateActions
           /\ StoredState(users, u) = VIEWING_CANDIDATE)
          => IF user_cache[u].current_candidate = <<>>
             THEN /\ favorites' = favorites /\ blacklist' = blacklist
                  /\ photo_likes' = photo_likes
                  /\ turn'.gnc > 0 \/ turn'.out = <<"reauthorize">>
             ELSE AppliedTo(u, turn'.text, shown[u])]_vars

\* C37 is refuted: 'to_favorites' has stored a candidate who is not the one
\* last sent to the user
C37_Refuted ==
    /\ turn.handled /\ turn.text = "to_favorites" /\ turn.before = VIEWING_CANDIDATE
    /\ turn.out = <<"added_to_favorites">>
    /\ user_cache[turn.user].current_candidate # <<>>
    /\ user_cache[turn.user].current_candidate[1].id # shown[turn.user]
    /\ \E i \in DOMAIN favorites :
          /\ favorites[i].user_id = turn.user
          /\ favorites[i].favorite_user_id = user_cache[turn.user].current_candidate[1].id

\* C38: a text that is neither 'авторизоваться' nor a redirect, sent by a
\* user without profile or without token, does not reach handle_message,
\* changes no table and is answered with the request to authorize, nothing else.
C38_GateBeforeHandler ==
    [][\A u \in UserIds :
          (/\ turn'.user = u /\ ~Authorized(u)
           /\ Lower(Strip(turn'.text)) # "avtorizovatsya" /\ ~ContainsCode(Strip(turn'.text)))
          => /\ ~turn'.handled
             /\ turn'.out = <<"authorize_prompt">>
             /\ UNCHANGED <<users, search_params, favorites, blacklist, matches,
                            photo_likes, auth_states>>]_vars

\* C38 happens: 'find_pair' from a user whose profile has no token was answered
\* with the request to authorize and did not reach handle_message
C38_Witness ==
    /\ turn.text = "find_pair" /\ ~turn.handled /\ turn.out = <<"authorize_prompt">>
    /\ get_user(users, turn.user) # <<>>
    /\ get_user(users, turn.user)[1].access_token = None

\* the turn was a redirect that ended with a token stored
Exchanged == turn.exchanges = 1 /\ "auth_success" \in SeqRange(turn.out)

\* C39 as written: once a redirect has been exchanged, the same redirect sent
\* again, now or at any later time, finds no live challenge and makes no
\* exchange.  (Refuted: the row is not deleted and stays live until it expires.)
C39_ChallengeSingleUse ==
    Exchanged =>
        \A t \in now..MaxTime :
            LET again == run(World, turn.user, turn.text, DefaultEnv, t)
            IN  again.exchanges = 0 /\ again.resp = "session_expired"

\* C39 is refuted: after a redirect was exchanged its challenge is still
\* stored and live, and the same redirect makes a second exchange
C39_Refuted ==
    /\ Exchanged
    /\ get_verifier(auth_states, turn.user, QueryOf(turn.text).state, now) # None
    /\ run(World, turn.user, turn.text, DefaultEnv, now).exchanges = 1
    /\ "auth_success" \in SeqRange(run(World, turn.user, turn.text, DefaultEnv, now).out)

\* C40 as written: a token stored on a profile was issued to the account the
\* profile belongs to.  (Refuted: the user id of the exchange is only tested
\* for being present.)
C40_TokenOfOwner ==
    \A i \in DOMAIN users :
        users[i].access_token # None => TokenOwner(users[i].access_token) = users[i].user_id

\* C40 is refuted: the redirect of user 1 was exchanged for the token of
\* account 2, which is now the token of the profile of user 1
C40_Refuted ==
    /\ Exchanged /\ turn.user = 1
    /\ get_user(users, 1) # <<>>
    /\ get_user(users, 1)[1].access_token = "tok2"
    /\ TokenOwner("tok2") # 1

====
